---------------------------- MODULE Spec2Model ----------------------------
(***************************************************************************)
(* A state-machine model of the VueStream canvas core:                     *)
(*   CanvasManager   (packages/core/canvas/CanvasManager.ts)               *)
(*   OverlayManager  (packages/core/canvas/overlays.ts)                    *)
(*   layout presets  (packages/core/canvas/layouts.ts)                     *)
(*                                                                         *)
(* JavaScript objects that the code compares or shares by reference        *)
(* (Pixi containers, sprites, Application instances, VideoTexture and      *)
(* LayoutZone records) are modelled as entries of small heaps addressed by *)
(* integer object ids; 0 stands for null/undefined.  Lengths are kept as   *)
(* integers in thousandths of a pixel, preset fractions in thousandths.    *)
(***************************************************************************)
EXTENDS Integers, Sequences, FiniteSets, TLC

(***************************************************************************)
(* Bounds of the model.                                                    *)
(***************************************************************************)
\* initialize() calls that get past the isInitialized guard
MaxInits == 2
\* VideoTexture objects created since the last new Application
MaxVideoObjs == 3
\* zone containers left attached under a layer after their registry entry
\* was overwritten by createLayoutZone with the same id
MaxOrphans == 1
\* overlay nodes alive at one time
MaxOverlayNodes == 2
\* listeners the caller registers for one event type
MaxListeners == 3
\* frames drawn, and sampling ticks counted, within one fps window
MaxFrames == 3

(***************************************************************************)
(* Program constants.                                                      *)
(***************************************************************************)
DefaultWidth == 1920
DefaultHeight == 1080
\* period of the sampling interval, milliseconds
SampleInterval == 1000
\* fractions and pixel lengths are integers in thousandths
Milli == 1000

LayerNames == {"background", "video", "overlays", "ui"}

LayerZIndex(name) ==
  CASE name = "background" -> 0
    [] name = "video" -> 10
    [] name = "overlays" -> 20
    [] OTHER -> 30

ZoneDef(id, x, y, w, h) == [id |-> id, x |-> x, y |-> y, width |-> w, height |-> h]

SINGLE_SPEAKER_LAYOUT ==
  [id |-> "single-speaker", maxParticipants |-> 1,
   zones |-> << ZoneDef("main", 50, 50, 900, 900) >>]

PICTURE_IN_PICTURE_LAYOUT ==
  [id |-> "picture-in-picture", maxParticipants |-> 2,
   zones |-> << ZoneDef("main", 25, 25, 950, 950),
                ZoneDef("pip", 700, 50, 250, 250) >>]

SIDE_BY_SIDE_LAYOUT ==
  [id |-> "side-by-side", maxParticipants |-> 2,
   zones |-> << ZoneDef("left", 25, 50, 475, 900),
                ZoneDef("right", 500, 50, 475, 900) >>]

FOUR_GRID_LAYOUT ==
  [id |-> "four-grid", maxParticipants |-> 4,
   zones |-> << ZoneDef("top-left", 25, 25, 475, 475),
                ZoneDef("top-right", 500, 25, 475, 475),
                ZoneDef("bottom-left", 25, 500, 475, 475),
                ZoneDef("bottom-right", 500, 500, 475, 475) >>]

SPOTLIGHT_GALLERY_LAYOUT ==
  [id |-> "spotlight-gallery", maxParticipants |-> 7,
   zones |-> << ZoneDef("spotlight", 25, 25, 700, 950),
                ZoneDef("gallery-1", 750, 25, 225, 150),
                ZoneDef("gallery-2", 750, 190, 225, 150),
                ZoneDef("gallery-3", 750, 355, 225, 150),
                ZoneDef("gallery-4", 750, 520, 225, 150),
                ZoneDef("gallery-5", 750, 685, 225, 150),
                ZoneDef("gallery-6", 750, 850, 225, 125) >>]

LAYOUT_PRESETS ==
  << SINGLE_SPEAKER_LAYOUT, PICTURE_IN_PICTURE_LAYOUT, SIDE_BY_SIDE_LAYOUT,
     FOUR_GRID_LAYOUT, SPOTLIGHT_GALLERY_LAYOUT >>

PresetIds == { LAYOUT_PRESETS[i].id : i \in DOMAIN LAYOUT_PRESETS }

\* LAYOUT_PRESETS.find(l => l.id === layoutId): the first match
getLayoutPreset(id) ==
  LAYOUT_PRESETS[CHOOSE i \in DOMAIN LAYOUT_PRESETS :
                   /\ LAYOUT_PRESETS[i].id = id
                   /\ \A j \in 1..(i - 1) : LAYOUT_PRESETS[j].id # id]

\* LayoutZone objects alive at one time: the largest preset, the orphans, and
\* one removed container per sprite still parented to it
MaxZoneObjs == 7 + MaxOrphans + MaxVideoObjs

PresetZoneIds(p) == { p.zones[i].id : i \in DOMAIN p.zones }

\* a scaling that multiplies both axes by the canvas width
calculateZonePositionsByWidth(zs, canvasWidth, canvasHeight) ==
  [i \in DOMAIN zs |->
     [id |-> zs[i].id,
      x |-> zs[i].x * canvasWidth,
      y |-> zs[i].y * canvasWidth,
      width |-> zs[i].width * canvasWidth,
      height |-> zs[i].height * canvasWidth]]

\* zones.map(zone => ({...zone, x: zone.x * canvasWidth, ...}))
calculateZonePositions(zs, canvasWidth, canvasHeight) ==
  [i \in DOMAIN zs |->
     [id |-> zs[i].id,
      x |-> zs[i].x * canvasWidth,
      y |-> zs[i].y * canvasHeight,
      width |-> zs[i].width * canvasWidth,
      height |-> zs[i].height * canvasHeight]]

(***************************************************************************)
(* Inputs the environment may pass to the public operations.               *)
(***************************************************************************)
\* video sources: id, kind, and the size the media element reports
VideoSources ==
  { [id |-> "cam", type |-> "camera", w |-> 1280, h |-> 720],
    [id |-> "screen", type |-> "screen", w |-> 1024, h |-> 768] }
VideoIdArgs == { s.id : s \in VideoSources }

\* zone ids used in createLayoutZone / removeLayoutZone / addVideoToZone calls
ZoneIdArgs == {"main", "pip"}
LayerArgs == {"video", "nolayer"}
\* (x, y, width, height) in pixels for createLayoutZone
ManualRects == { [x |-> 100, y |-> 50, width |-> 640, height |-> 360] }
\* rectangles (pixels) and layer names passed to createLayoutZone by a caller
\* that places zones on several layers, one of them partly off the canvas
ZoneRectArgs == ManualRects \cup { [x |-> -20, y |-> -10, width |-> 200, height |-> 100] }
ZoneLayerArgs == {"video", "ui", "nolayer"}
LayoutIdArgs == PresetIds \cup {"no-such-layout"}
ResizeArgs == { <<1280, 720>> }
\* Date.now() - performanceMonitor.startTime at a sampling tick (milliseconds):
\* at the nominal interval, and early, late and very late
DeltaArgs == {400, SampleInterval, 1500, 2000}
\* sizes passed to resize by a caller that resizes at any time
SizeArgs == ResizeArgs \cup { <<800, 600>> }
OverlayIdArgs == {"title"}
\* sources and zone rectangles (pixels) of several shapes, for fitVideoToZone
FitSources ==
  { [id |-> "landscape", type |-> "camera", w |-> 1280, h |-> 720],
    [id |-> "portrait", type |-> "camera", w |-> 720, h |-> 1280],
    [id |-> "square", type |-> "screen", w |-> 480, h |-> 480],
    [id |-> "sliver", type |-> "screen", w |-> 7, h |-> 3],
    [id |-> "hd", type |-> "camera", w |-> 1920, h |-> 1080],
    [id |-> "pole", type |-> "screen", w |-> 3, h |-> 7] }
FitRects ==
  { [x |-> 0, y |-> 0, width |-> 640, height |-> 360],
    [x |-> 10, y |-> 10, width |-> 300, height |-> 400],
    [x |-> 0, y |-> 0, width |-> 500, height |-> 500],
    [x |-> 5, y |-> 5, width |-> 1000, height |-> 1],
    [x |-> 5, y |-> 5, width |-> 1, height |-> 1000],
    [x |-> 0, y |-> 0, width |-> 333, height |-> 77],
    [x |-> 0, y |-> 0, width |-> 640, height |-> 480] }
\* texture-pool contents, in insertion order of the keys, and the clock values
\* (milliseconds) Date.now() returns to a cleanup tick; no operation of the
\* manager adds to the pool, so a filled pool is an input of the cleanup
PoolKeyOrder == << "tex-a", "tex-b", "tex-c" >>
PoolEntries == [lastUsed : {0, 1000}, isInUse : BOOLEAN]
PoolArgs ==
  UNION { [ks -> PoolEntries] : ks \in SUBSET { PoolKeyOrder[i] : i \in DOMAIN PoolKeyOrder } }
NowArgs == {30000, 60000, 60001, 61000, 61001}
\* event types and listeners passed to on and off
EventTypeArgs == {"layout-changed"}
ListenerArgs == {"observer", "once", "remover", "adder"}

VARIABLES
  app,            \* state.app: 0, or the id of an Application object
  apps,           \* Application objects: id -> "created"|"ready"|"failed"|"destroyed"
  pendingInit,    \* initialize() calls suspended at `await app.init()`, by their app id
  isInitialized,  \* state.isInitialized
  width, height,  \* state.width, state.height (config.width/height are set with them)
  layers,         \* state.layers: name -> [zIndex, container]
  stage,          \* containers of layers attached to the current app's stage
  videoTextures,  \* state.videoTextures: source id -> VideoTexture object id
  videos,         \* VideoTexture objects (texture, sprite, media element)
  pendingVideo,   \* createVideoTexture() calls suspended at the readiness promise
  layoutZones,    \* state.layoutZones: zone id -> LayoutZone object id
  zones,          \* LayoutZone objects (with their Pixi container)
  currentLayout,  \* this.currentLayout: "" for null, else a preset id
  overlayManager, \* this.overlayManager: 0, or the id of an OverlayManager object
  omDestroyed,    \* whether that OverlayManager's container has been destroyed
  overlays,       \* OverlayManager.overlays: overlay id -> node id
  overlayNodes,   \* overlay nodes attached under the OverlayManager's container
  pendingOverlay, \* createOverlay calls for an image that await createImageOverlay
  texturePool,    \* texturePool.textures: key -> entry
  perfInterval,   \* performanceMonitor.interval: 0, or a timer handle
  perfTimers,     \* handles of running sampling intervals
  cleanupTimers,  \* handles of running pool-cleanup intervals
  textureCount,   \* state.performance.textureCount, fps, frameCount, framesRendered
  fps,            \* state.performance.fps
  frameCount,     \* performanceMonitor.frameCount
  framesRendered, \* frames the Application's render loop drew since
                  \* performanceMonitor.startTime
  eventListeners, \* this.eventListeners: event type -> listeners, in registration order
  videoTimers,    \* source ids of createVideoTexture calls whose 5 s timeout is pending
  useCanvas,      \* the useCanvas composable around the manager: whether the
                  \* manager is used through one (mounted), and its
                  \* layoutZones ref: zone id -> LayoutZone object id
  inits,          \* Application objects created so far
  lastCall,       \* the operation that ran last and how it ended
  steps,          \* for a zone or layout operation: the zones it removed and created,
                  \* the setting of the current layout and its emit, in order
  emitted,        \* the events it passed to emit(), in order
  delivered       \* the listener invocations its emits made, in order: <<type, listener>>

progVars ==
  << app, apps, pendingInit, isInitialized, width, height, layers, stage,
     videoTextures, videos, pendingVideo, layoutZones, zones, currentLayout,
     overlayManager, omDestroyed, overlays, overlayNodes, pendingOverlay, texturePool,
     perfInterval, perfTimers, cleanupTimers, textureCount, fps, frameCount, framesRendered, eventListeners,
     videoTimers >>

vars == << progVars, useCanvas, inits, lastCall, steps, emitted, delivered >>

Empty == << >>


Restrict(f, S) == [x \in S |-> f[x]]
Range(f) == { f[x] : x \in DOMAIN f }

(***************************************************************************)
(* The event bus.  emit(type, data) hands an event to the listeners of     *)
(* that type; a listener runs synchronously inside emit, so what it can    *)
(* read through getState()/getCurrentLayout() is the state at that point,  *)
(* recorded in `seen`.                                                     *)
(***************************************************************************)
Observe(init, lz, layout, vt, lay, w, h, bound, ov, pool) ==
  [isInitialized |-> init, zoneIds |-> DOMAIN lz, currentLayout |-> layout,
   videoIds |-> DOMAIN vt, layerNames |-> DOMAIN lay, width |-> w, height |-> h,
   bound |-> bound, overlayIds |-> DOMAIN ov, poolKeys |-> DOMAIN pool]

\* the resource each registered zone refers to: getState().layoutZones
Bound(lz, zs) == [id \in DOMAIN lz |-> zs[lz[id]].videoTexture]

emit(log, type, data, seen) ==
  Append(log, [type |-> type, data |-> data, seen |-> seen])

\* lastCall: the arguments are recorded for a call that went through
Call(op, args, result) ==
  [op |-> op, result |-> result,
   args |-> IF result \in {"ok", "pending"} THEN args ELSE << >>]

(***************************************************************************)
(* Listeners.  A listener is a callback of the caller; what it does to the *)
(* bus when it is invoked is fixed by its name: "observer" and "late" only *)
(* look, "once" unregisters itself, "remover" unregisters "observer", and  *)
(* "adder" registers "late" unless it is registered already.               *)
(***************************************************************************)
\* on(eventType, listener)
on(bus, type, l) ==
  IF type \in DOMAIN bus THEN [bus EXCEPT ![type] = Append(@, l)]
  ELSE (type :> << l >>) @@ bus

\* listeners.indexOf(listener): 0 stands for -1
indexOf(ls, l) ==
  IF \E i \in DOMAIN ls : ls[i] = l
    THEN CHOOSE i \in DOMAIN ls : ls[i] = l /\ \A j \in 1..(i - 1) : ls[j] # l
    ELSE 0

\* listeners.splice(index, 1)
splice(ls, i) == [k \in 1..(Len(ls) - 1) |-> IF k < i THEN ls[k] ELSE ls[k + 1]]

\* off(eventType, listener)
off(bus, type, l) ==
  IF type \in DOMAIN bus /\ indexOf(bus[type], l) > 0
    THEN [bus EXCEPT ![type] = splice(@, indexOf(@, l))]
    ELSE bus

\* the body of listener l, invoked with an event of the given type
invoke(bus, type, l) ==
  CASE l = "once" -> off(bus, type, "once")
    [] l = "remover" -> off(bus, type, "observer")
    [] l = "adder" -> IF indexOf(bus[type], "late") > 0 THEN bus
                      ELSE on(bus, type, "late")
    [] OTHER -> bus

\* listeners.forEach(listener => listener(event)): the indices 1..len of the
\* array are visited in order, len being its length when the loop starts; an
\* index the array no longer has is skipped.  r = [bus, log]
RECURSIVE forEach(_, _, _, _)
forEach(r, type, k, len) ==
  IF k > len THEN r
  ELSE IF k > Len(r.bus[type]) THEN forEach(r, type, k + 1, len)
  ELSE LET l == r.bus[type][k]
       IN forEach([bus |-> invoke(r.bus, type, l),
                   log |-> Append(r.log, << type, l >>)], type, k + 1, len)

\* CanvasManager.emit on the bus: nothing if no listener array exists
emitToListeners(r, type) ==
  IF type \in DOMAIN r.bus THEN forEach(r, type, 1, Len(r.bus[type])) ELSE r

\* the emits of one operation, in order
RECURSIVE deliverAll(_, _, _)
deliverAll(r, events, i) ==
  IF i > Len(events) THEN r
  ELSE deliverAll(emitToListeners(r, events[i].type), events, i + 1)

\* what the emits of the running operation do to the bus
DeliverToListeners ==
  LET r == deliverAll([bus |-> eventListeners, log |-> Empty], emitted', 1)
  IN /\ eventListeners' = r.bus
     /\ delivered' = r.log

\* layoutZones.value of the composable after an operation made through it:
\* destroy clears it; its 'layout-changed' listener, which useCanvas()
\* registers on the manager, and the wrappers initialize, createLayoutZone,
\* addVideoToZone and applyLayout, once the manager's method has returned,
\* set it to new Map(manager.getState().layoutZones).  Every emit of
\* 'layout-changed' is the last statement of its method, so the registry the
\* listener copies is the one the method leaves.
mirrorLayoutZones ==
  IF lastCall'.op = "destroy" THEN Empty
  ELSE IF \/ \E i \in DOMAIN emitted' : emitted'[i].type = "layout-changed"
          \/ /\ lastCall'.op = "initialize"
             /\ lastCall'.result \in {"ok", "noop"}
          \/ /\ lastCall'.op \in {"createLayoutZone", "addVideoToZone", "applyLayout"}
             /\ lastCall'.result = "ok"
         THEN layoutZones'
         ELSE useCanvas.layoutZones

\* what ends every operation of the manager: the listeners are invoked, and
\* a composable around the manager updates its mirror
Deliver ==
  /\ DeliverToListeners
  /\ useCanvas' = IF useCanvas.mounted
                    THEN [useCanvas EXCEPT !.layoutZones = mirrorLayoutZones]
                    ELSE useCanvas

(***************************************************************************)
(* Pixi scene-graph primitives used by the code.  A sprite has at most one *)
(* parent; Container.removeChild(c) acts only when c is a child.  The      *)
(* scale and position of a sprite are tracked while it is attached: a      *)
(* detached sprite keeps them in Pixi, but nothing reads them before the   *)
(* next fitVideoToZone overwrites them, so the model drops them (Unfitted).*)
(***************************************************************************)
Unfitted(video) ==
  [video EXCEPT !.parent = 0, !.scaleNum = 1, !.scaleDen = 1,
                !.spriteW = video.texW * Milli, !.spriteH = video.texH * Milli,
                !.x = 0, !.y = 0]

\* parent.removeChild(sprite of v), called on the container of zone z
removeChild(vs, z, v) ==
  IF v \in DOMAIN vs /\ vs[v].parent = z
    THEN [vs EXCEPT ![v] = Unfitted(vs[v])]
    ELSE vs

\* container.addChild(sprite of v), on the container of zone z
addChild(vs, z, v) == [vs EXCEPT ![v].parent = z]

\* zone objects something still refers to: the registry, a layer they are
\* attached under, or a sprite whose parent is their container
LiveZones(lz, zs, vs) ==
  { z \in DOMAIN zs :
      \/ z \in Range(lz)
      \/ zs[z].parent # 0
      \/ \E v \in DOMAIN vs : vs[v].parent = z }

Orphans(lz, zs) == { z \in DOMAIN zs : zs[z].parent # 0 /\ z \notin Range(lz) }

FreeZoneIds(zs) == (1..MaxZoneObjs) \ DOMAIN zs
NewZoneId(zs) == CHOOSE z \in FreeZoneIds(zs) : \A y \in FreeZoneIds(zs) : z <= y

FreeVideoIds(vs) == (1..MaxVideoObjs) \ DOMAIN vs
NewVideoId(vs) == CHOOSE v \in FreeVideoIds(vs) : \A y \in FreeVideoIds(vs) : v <= y

(***************************************************************************)
(* Zone operations as functions of the part of the state they touch:       *)
(* s = [layoutZones, zones, videos, steps, raised].                        *)
(***************************************************************************)
ZoneState(lz, zs, vs) ==
  [layoutZones |-> lz, zones |-> zs, videos |-> vs, steps |-> Empty, raised |-> FALSE]

Collect(s) ==
  [s EXCEPT !.zones = Restrict(s.zones, LiveZones(s.layoutZones, s.zones, s.videos))]

\* a removal that unregisters the zone and leaves its container under the layer
removeLayoutZoneKeepingContainer(s, id) ==
  IF id \notin DOMAIN s.layoutZones THEN s
  ELSE Collect([s EXCEPT !.layoutZones = Restrict(s.layoutZones, DOMAIN s.layoutZones \ {id}),
                         !.steps = Append(s.steps, <<"remove", id>>)])

\* CanvasManager.removeLayoutZone
removeLayoutZone(s, id) ==
  IF id \notin DOMAIN s.layoutZones THEN s
  ELSE
    LET z == s.layoutZones[id]
        zone == s.zones[z]
        \* zone.container.removeChild(zone.videoTexture.sprite)
        vs1 == IF zone.videoTexture # 0
                 THEN removeChild(s.videos, z, zone.videoTexture)
                 ELSE s.videos
        \* zone.container.parent.removeChild(zone.container)
        zs1 == [s.zones EXCEPT ![z].parent = 0]
        \* this.state.layoutZones.delete(id)
        lz1 == Restrict(s.layoutZones, DOMAIN s.layoutZones \ {id})
    IN Collect([s EXCEPT !.layoutZones = lz1, !.zones = zs1, !.videos = vs1,
                         !.steps = Append(s.steps, <<"remove", id>>)])

\* a creation that ignores the layer name and always uses the video layer
createLayoutZoneOnVideoLayer(s, lay, id, x, y, w, h, layerName) ==
  IF "video" \notin DOMAIN lay THEN [s EXCEPT !.raised = TRUE]
  ELSE
    LET z == NewZoneId(s.zones)
        zone == [id |-> id, x |-> x, y |-> y, width |-> w, height |-> h,
                 parent |-> lay["video"].container, layer |-> "video",
                 zIndex |-> lay["video"].zIndex, videoTexture |-> 0]
    IN Collect([s EXCEPT !.zones = (z :> zone) @@ s.zones,
                         !.layoutZones = (id :> z) @@ s.layoutZones,
                         !.steps = Append(s.steps, <<"create", id>>)])

\* CanvasManager.createLayoutZone; lay is state.layers
createLayoutZone(s, lay, id, x, y, w, h, layerName) ==
  IF layerName \notin DOMAIN lay THEN [s EXCEPT !.raised = TRUE]
  ELSE
    LET z == NewZoneId(s.zones)
        zone == [id |-> id, x |-> x, y |-> y, width |-> w, height |-> h,
                 parent |-> lay[layerName].container, layer |-> layerName,
                 zIndex |-> lay[layerName].zIndex, videoTexture |-> 0]
    IN Collect([s EXCEPT !.zones = (z :> zone) @@ s.zones,
                         !.layoutZones = (id :> z) @@ s.layoutZones,
                         !.steps = Append(s.steps, <<"create", id>>)])

\* a removal loop that misses entries: only one zone is removed
removeAllSkipping(s, ids) ==
  IF ids = {} THEN s ELSE removeLayoutZone(s, CHOOSE i \in ids : TRUE)

\* for (const [zoneId] of this.state.layoutZones) this.removeLayoutZone(zoneId)
\* Each removal touches only its own zone, so the result does not depend on
\* the order in which the Map yields its keys.
RECURSIVE removeAll(_, _)
removeAll(s, ids) ==
  IF ids = {} THEN s
  ELSE LET id == CHOOSE i \in ids : TRUE
       IN removeAll(removeLayoutZone(s, id), ids \ {id})

\* zones.forEach(zoneData => this.createLayoutZone(...)); the first throw ends it
RECURSIVE createAll(_, _, _, _)
createAll(s, lay, zs, i) ==
  IF i > Len(zs) \/ s.raised THEN s
  ELSE createAll(createLayoutZone(s, lay, zs[i].id, zs[i].x, zs[i].y,
                                  zs[i].width, zs[i].height, "video"),
                 lay, zs, i + 1)

\* fitVideoToZone filling the zone instead of fitting into it
fitVideoToZoneCovering(video, zone) ==
  LET tw == video.texW * Milli
      th == video.texH * Milli
      wider == video.texW * zone.height < zone.width * video.texH
      num == IF wider THEN zone.width ELSE zone.height
      den == IF wider THEN tw ELSE th
      sw == IF wider THEN zone.width ELSE (video.texW * zone.height) \div video.texH
      sh == IF wider THEN (video.texH * zone.width) \div video.texW ELSE zone.height
  IN [video EXCEPT !.scaleNum = num, !.scaleDen = den,
                   !.spriteW = sw, !.spriteH = sh,
                   !.x = (zone.width - sw) \div 2,
                   !.y = (zone.height - sh) \div 2]

\* CanvasManager.fitVideoToZone: the sprite's scale (num/den), size and position
fitVideoToZone(video, zone) ==
  LET tw == video.texW * Milli
      th == video.texH * Milli
      wider == video.texW * zone.height > zone.width * video.texH
      num == IF wider THEN zone.width ELSE zone.height
      den == IF wider THEN tw ELSE th
      sw == IF wider THEN zone.width ELSE (video.texW * zone.height) \div video.texH
      sh == IF wider THEN (video.texH * zone.width) \div video.texW ELSE zone.height
  IN [video EXCEPT !.scaleNum = num, !.scaleDen = den,
                   !.spriteW = sw, !.spriteH = sh,
                   !.x = (zone.width - sw) \div 2,
                   !.y = (zone.height - sh) \div 2]

\* addVideoToZone attaching the sprite without recording it on the zone
addVideoToZoneUnbound(s, v, z) ==
  LET vs1 == removeChild(s.videos, s.videos[v].parent, v)
      vs2 == addChild(vs1, z, v)
      vs3 == [vs2 EXCEPT ![v] = fitVideoToZone(vs2[v], s.zones[z])]
  IN Collect([s EXCEPT !.videos = vs3])

\* CanvasManager.addVideoToZone, after the lookups succeeded
addVideoToZone(s, v, z) ==
  LET \* if (sprite.parent) sprite.parent.removeChild(sprite)
      vs1 == removeChild(s.videos, s.videos[v].parent, v)
      \* zone.container.addChild(sprite)
      vs2 == addChild(vs1, z, v)
      \* zone.videoTexture = videoTexture
      zs1 == [s.zones EXCEPT ![z].videoTexture = v]
      vs3 == [vs2 EXCEPT ![v] = fitVideoToZone(vs2[v], zs1[z])]
  IN Collect([s EXCEPT !.videos = vs3, !.zones = zs1])


(***************************************************************************)
(* Initial state: the state the constructor leaves.                        *)
(***************************************************************************)
InitState(pool, mounted) ==
  /\ app = 0
  /\ apps = Empty
  /\ pendingInit = {}
  /\ isInitialized = FALSE
  /\ width = DefaultWidth
  /\ height = DefaultHeight
  /\ layers = Empty
  /\ stage = {}
  /\ videoTextures = Empty
  /\ videos = Empty
  /\ pendingVideo = {}
  /\ layoutZones = Empty
  /\ zones = Empty
  /\ currentLayout = ""
  /\ overlayManager = 0
  /\ omDestroyed = FALSE
  /\ overlays = Empty
  /\ overlayNodes = Empty
  /\ pendingOverlay = {}
  /\ texturePool = pool
  /\ perfInterval = 0
  /\ perfTimers = {}
  /\ cleanupTimers = {}
  /\ textureCount = 0
  /\ fps = 0
  /\ frameCount = 0
  /\ framesRendered = 0
  /\ eventListeners = Empty
  /\ videoTimers = {}
  /\ inits = 0
  /\ lastCall = Call("constructor", << >>, "ok")
  /\ steps = Empty
  /\ emitted = Empty
  /\ delivered = Empty
  /\ useCanvas = [mounted |-> mounted, layoutZones |-> Empty]

\* the state after new CanvasManager(config), with the pool as given
InitWithPool(pool) == InitState(pool, FALSE)

\* the state after construction
Init == InitWithPool(Empty)

\* the state after useCanvas(): the manager it constructed, and empty refs
InitUseCanvas == InitState(Empty, TRUE)

\* the state after construction, with pool entries put in by the caller
InitPool == \E pool \in PoolArgs : InitWithPool(pool)

Seen == Observe(isInitialized, layoutZones, currentLayout, videoTextures, layers,
                width, height, Bound(layoutZones, zones), overlays, texturePool)

(***************************************************************************)
(* initialize(container), up to `await this.state.app.init(...)`.          *)
(***************************************************************************)
\* initialize() without its guard
initializeGuardMissing == FALSE

\* whether a call on an initialized manager returns at once
initializeGuard == isInitialized

InitializeCall ==
  /\ steps' = Empty
  /\ emitted' = Empty
  /\ IF initializeGuard
       THEN \* console.warn('Canvas already initialized'); return
            /\ lastCall' = Call("initialize", << >>, "noop")
            /\ UNCHANGED << progVars, inits >>
       ELSE \* this.state.app = new Application(); await this.state.app.init(...)
            /\ inits < MaxInits
            /\ inits' = inits + 1
            /\ app' = inits + 1
            /\ apps' = ((inits + 1) :> "created") @@ apps
            /\ pendingInit' = pendingInit \cup {inits + 1}
            \* VideoTexture objects nothing refers to any more are forgotten
            /\ LET keep == { v \in DOMAIN videos : v \in Range(videoTextures) }
                   vs == Restrict(videos, keep)
                   zs == [z \in DOMAIN zones |->
                            IF zones[z].videoTexture \in keep THEN zones[z]
                            ELSE [zones[z] EXCEPT !.videoTexture = 0]]
               IN /\ videos' = vs
                  /\ zones' = Restrict(zs, LiveZones(layoutZones, zs, vs))
            /\ lastCall' = Call("initialize", << >>, "pending")
            /\ UNCHANGED << isInitialized, width, height, layers, stage,
                            videoTextures, pendingVideo, layoutZones,
                            currentLayout, overlayManager, omDestroyed, overlays,
                            overlayNodes, pendingOverlay, texturePool, perfInterval, perfTimers,
                            cleanupTimers, textureCount, fps, frameCount, framesRendered >>
  /\ UNCHANGED videoTimers
  /\ Deliver

\* a catch block that reports nothing
initializationFailedSilently(log, message, seen) == log

\* the catch block of initialize: emit('error', canvasError) before the rethrow
initializationFailed(log, message, seen) ==
  emit(log, "error",
       [code |-> "INITIALIZATION_FAILED", message |-> message, timestamp |-> "now"],
       seen)

\* createDefaultLayers: four containers added to the stage and to state.layers
createDefaultLayers(gen) ==
  [n \in LayerNames |-> [zIndex |-> LayerZIndex(n), container |-> gen]]

(***************************************************************************)
(* app.init() of call a resolved: the call resumes after the await.  What  *)
(* it touches is this.state.app, whichever Application that is by now; an  *)
(* Application whose init has not completed has no renderer, so reading    *)
(* its canvas throws, as does a null this.state.app; the catch block       *)
(* reports either.                                                         *)
(***************************************************************************)
InitResolve(a) ==
  /\ a \in pendingInit
  /\ pendingInit' = pendingInit \ {a}
  /\ apps' = [apps EXCEPT ![a] = "ready"]
  /\ steps' = Empty
  /\ IF app # 0 /\ apps'[app] = "ready"
       THEN /\ layers' = createDefaultLayers(a)
            /\ stage' = stage \cup {a}
            \* startPerformanceMonitoring
            /\ perfInterval' = a
            /\ perfTimers' = perfTimers \cup {a}
            \* startTexturePoolCleanup: the handle is not kept
            /\ cleanupTimers' = cleanupTimers \cup {a}
            \* new OverlayManager(overlaysLayer.container)
            /\ overlayManager' = a
            /\ omDestroyed' = FALSE
            /\ overlays' = Empty
            /\ isInitialized' = TRUE
            /\ emitted' = emit(Empty, "initialized", [config |-> << width, height >>],
                               Observe(isInitialized', layoutZones, currentLayout,
                                       videoTextures, layers', width, height,
                                       Bound(layoutZones, zones), overlays',
                                       texturePool))
            /\ lastCall' = Call("initialize", << a >>, "ok")
       ELSE \* TypeError: the Application in state.app has no renderer (or is null)
            /\ emitted' = initializationFailed(Empty, "no renderer", Seen)
            /\ lastCall' = Call("initialize", << a >>, "raised")
            /\ UNCHANGED << layers, stage, perfInterval, perfTimers, cleanupTimers,
                            overlayManager, omDestroyed, overlays, isInitialized >>
  /\ UNCHANGED << app, width, height, videoTextures, videos, pendingVideo,
                  layoutZones, zones, currentLayout, overlayNodes, pendingOverlay, texturePool,
                  textureCount, fps, frameCount, framesRendered, inits >>
  /\ UNCHANGED videoTimers
  /\ Deliver

\* app.init() of call a rejected: the catch block emits 'error' and rethrows
InitReject(a) ==
  /\ a \in pendingInit
  /\ pendingInit' = pendingInit \ {a}
  /\ apps' = [apps EXCEPT ![a] = "failed"]
  /\ steps' = Empty
  /\ emitted' = initializationFailed(Empty, "init failed", Seen)
  /\ lastCall' = Call("initialize", << a >>, "raised")
  /\ UNCHANGED << app, isInitialized, width, height, layers, stage, videoTextures,
                  videos, pendingVideo, layoutZones, zones, currentLayout,
                  overlayManager, omDestroyed, overlays, overlayNodes, pendingOverlay, texturePool,
                  perfInterval, perfTimers, cleanupTimers, textureCount, fps, frameCount, framesRendered, inits >>
  /\ UNCHANGED videoTimers
  /\ Deliver


(***************************************************************************)
(* destroy()                                                               *)
(***************************************************************************)
\* whether destroy() returns at once
destroyGuard == ~isInitialized

\* clearInterval(this.performanceMonitor.interval)
clearPerformanceMonitoring(timers, handle) ==
  IF handle # 0 THEN timers \ {handle} ELSE timers

\* what destroy() stops of the pool-cleanup intervals: nothing, their handle
\* was never stored
clearTexturePoolCleanup(timers) == timers

\* for (const videoTexture of this.state.videoTextures.values()):
\*   texture.destroy(); source.element.srcObject = null
destroyVideoTextures(vs, registry) ==
  [v \in DOMAIN vs |->
     IF v \in Range(registry)
       THEN [vs[v] EXCEPT !.textureDestroyed = TRUE, !.srcObject = FALSE]
       ELSE vs[v]]

\* this.state.app.destroy(true, true): the stage is destroyed with its
\* descendants; a sprite under an attached zone container loses its parent
\* and its texture is destroyed with it
destroyStage(vs, zs) ==
  [v \in DOMAIN vs |->
     IF vs[v].parent # 0 /\ zs[vs[v].parent].parent # 0
       THEN [Unfitted(vs[v]) EXCEPT !.textureDestroyed = TRUE]
       ELSE vs[v]]

Destroy ==
  /\ steps' = Empty
  /\ IF destroyGuard
       THEN /\ emitted' = Empty
            /\ lastCall' = Call("destroy", << >>, "noop")
            /\ UNCHANGED << progVars, inits >>
       ELSE /\ perfTimers' = clearPerformanceMonitoring(perfTimers, perfInterval)
            /\ cleanupTimers' = clearTexturePoolCleanup(cleanupTimers)
            /\ LET vs1 == destroyVideoTextures(videos, videoTextures)
                   vs2 == destroyStage(vs1, zones)
               IN /\ videos' = vs2
                  /\ LET zs == [z \in DOMAIN zones |-> [zones[z] EXCEPT !.parent = 0]]
                     IN zones' = Restrict(zs, LiveZones(Empty, zs, vs2))
            \* overlayManager.destroy(): clearAllOverlays, container removed and destroyed
            /\ overlays' = Empty
            /\ overlayNodes' = Empty
            /\ omDestroyed' = (overlayManager # 0)
            /\ apps' = IF app # 0 THEN [apps EXCEPT ![app] = "destroyed"] ELSE apps
            /\ stage' = {}
            /\ isInitialized' = FALSE
            /\ app' = 0
            /\ layers' = Empty
            /\ videoTextures' = Empty
            /\ layoutZones' = Empty
            /\ texturePool' = Empty
            /\ emitted' = emit(Empty, "destroyed", << >>,
                               Observe(isInitialized', layoutZones', currentLayout,
                                       videoTextures', layers', width, height,
                                       Bound(layoutZones', zones'), overlays',
                                       texturePool'))
            /\ lastCall' = Call("destroy", << >>, "ok")
            /\ UNCHANGED << pendingInit, width, height, pendingVideo, currentLayout,
                            pendingOverlay, overlayManager, perfInterval, textureCount, fps, frameCount, framesRendered, inits >>
  /\ UNCHANGED videoTimers
  /\ Deliver

(***************************************************************************)
(* createVideoTexture(source)                                              *)
(***************************************************************************)
SourceOf(id) == CHOOSE s \in VideoSources \cup FitSources : s.id = id

CreateVideoTextureCall(id) ==
  /\ steps' = Empty
  /\ emitted' = Empty
  /\ IF app = 0
       THEN \* throw new Error('Canvas not initialized'), before the try block
            /\ lastCall' = Call("createVideoTexture", << id >>, "raised")
            /\ UNCHANGED << progVars, inits >>
       ELSE \* the element is created and bound; the call awaits its readiness
            /\ id \notin pendingVideo
            /\ Cardinality(DOMAIN videos) + Cardinality(pendingVideo) < MaxVideoObjs
            /\ pendingVideo' = pendingVideo \cup {id}
            \* setTimeout(() => reject(new Error('Video load timeout')), 5000)
            /\ videoTimers' = videoTimers \cup {id}
            /\ lastCall' = Call("createVideoTexture", << id >>, "pending")
            /\ UNCHANGED << app, apps, pendingInit, isInitialized, width, height,
                            layers, stage, videoTextures, videos, layoutZones, zones,
                            currentLayout, overlayManager, omDestroyed, overlays,
                            overlayNodes, pendingOverlay, texturePool, perfInterval, perfTimers,
                            cleanupTimers, textureCount, fps, frameCount, framesRendered, inits >>
  /\ Deliver

\* the VideoTexture record built after the await
newVideoTexture(src) ==
  [id |-> src.id, type |-> src.type, texW |-> src.w, texH |-> src.h,
   textureDestroyed |-> FALSE, srcObject |-> TRUE, isActive |-> TRUE, parent |-> 0,
   scaleNum |-> 1, scaleDen |-> 1, spriteW |-> src.w * Milli, spriteH |-> src.h * Milli,
   x |-> 0, y |-> 0]

\* a registration that stores nothing
registerNothing(registry, id, v) == registry

\* this.state.videoTextures.set(source.id, videoTexture)
registerVideoTexture(registry, id, v) == (id :> v) @@ registry

\* onloadedmetadata fired: the call resumes and registers the resource
VideoReady(id) ==
  /\ id \in pendingVideo
  /\ pendingVideo' = pendingVideo \ {id}
  /\ steps' = Empty
  /\ LET v == NewVideoId(videos) IN
       /\ videos' = (v :> newVideoTexture(SourceOf(id))) @@ videos
       /\ videoTextures' = registerVideoTexture(videoTextures, id, v)
       /\ lastCall' = Call("createVideoTexture", << id, v >>, "ok")
  /\ emitted' = emit(Empty, "texture-created", [id |-> id, type |-> SourceOf(id).type],
                     Observe(isInitialized, layoutZones, currentLayout, videoTextures',
                             layers, width, height, Bound(layoutZones, zones),
                             overlays, texturePool))
  /\ UNCHANGED << app, apps, pendingInit, isInitialized, width, height, layers, stage,
                  layoutZones, zones, currentLayout, overlayManager, omDestroyed,
                  overlays, overlayNodes, pendingOverlay, texturePool, perfInterval, perfTimers,
                  cleanupTimers, textureCount, fps, frameCount, framesRendered, inits >>
  /\ UNCHANGED videoTimers
  /\ Deliver

\* a catch block that reports nothing
videoTextureCreationFailedSilently(log, message, seen) == log

\* the catch block of createVideoTexture: emit('error', canvasError) before
\* the rethrow
videoTextureCreationFailed(log, message, seen) ==
  emit(log, "error",
       [code |-> "VIDEO_TEXTURE_CREATION_FAILED", message |-> message,
        timestamp |-> "now"],
       seen)

\* what rejects the readiness promise: the 5 s timer with an Error, or the
\* element's onerror with an Event, which is not an Error
FailureCauses == {"timeout", "error"}
failureMessage(cause) ==
  IF cause = "timeout" THEN "Video load timeout" ELSE "Unknown error"

\* onerror fired, or the 5 s timeout came first: the catch block emits
\* 'error' and rethrows
VideoFail(id) ==
  /\ id \in pendingVideo
  /\ pendingVideo' = pendingVideo \ {id}
  /\ steps' = Empty
  /\ \E cause \in FailureCauses :
        /\ cause = "timeout" => id \in videoTimers
        /\ videoTimers' = IF cause = "timeout" THEN videoTimers \ {id} ELSE videoTimers
        /\ emitted' = videoTextureCreationFailed(Empty, failureMessage(cause), Seen)
  /\ lastCall' = Call("createVideoTexture", << id >>, "raised")
  /\ UNCHANGED << app, apps, pendingInit, isInitialized, width, height, layers, stage,
                  videoTextures, videos, layoutZones, zones, currentLayout,
                  overlayManager, omDestroyed, overlays, overlayNodes, pendingOverlay, texturePool,
                  perfInterval, perfTimers, cleanupTimers, textureCount, fps, frameCount, framesRendered, inits >>
  /\ Deliver

\* the 5 s timer of a call fires after its readiness promise was settled:
\* reject() on a settled promise does nothing
VideoTimeoutLate(id) ==
  /\ id \in videoTimers
  /\ id \notin pendingVideo
  /\ videoTimers' = videoTimers \ {id}
  /\ steps' = Empty
  /\ emitted' = Empty
  /\ lastCall' = Call("videoLoadTimeout", << id >>, "noop")
  /\ UNCHANGED << app, apps, pendingInit, isInitialized, width, height, layers, stage,
                  videoTextures, videos, pendingVideo, layoutZones, zones,
                  currentLayout, overlayManager, omDestroyed, overlays, overlayNodes, pendingOverlay,
                  texturePool, perfInterval, perfTimers, cleanupTimers, textureCount, fps, frameCount, framesRendered,
                  inits >>
  /\ Deliver


(***************************************************************************)
(* Zone and layout operations                                              *)
(***************************************************************************)
ZoneVarsUnchanged ==
  UNCHANGED << app, apps, pendingInit, isInitialized, width, height, layers, stage,
               videoTextures, pendingVideo, overlayManager, omDestroyed, overlays,
               overlayNodes, pendingOverlay, texturePool, perfInterval, perfTimers, cleanupTimers,
               textureCount, fps, frameCount, framesRendered, inits >>

\* addVideoToZone detaching the sprite before it looks the zone up
addVideoToZoneDetachingFirst(s, vt, lz, videoId, zoneId) ==
  IF videoId \notin DOMAIN vt THEN [s |-> s, raised |-> TRUE]
  ELSE LET v == vt[videoId]
           s1 == [s EXCEPT !.videos = removeChild(s.videos, s.videos[v].parent, v)]
       IN IF zoneId \notin DOMAIN lz THEN [s |-> s1, raised |-> TRUE]
          ELSE [s |-> addVideoToZone(s1, v, lz[zoneId]), raised |-> FALSE]

\* CanvasManager.addVideoToZone from its lookups on: r = [s, raised]
addVideoToZoneLookup(s, vt, lz, videoId, zoneId) ==
  IF videoId \notin DOMAIN vt \/ zoneId \notin DOMAIN lz
    THEN \* throw new Error(`Video ${videoId} or zone ${zoneId} not found`)
         [s |-> s, raised |-> TRUE]
    ELSE [s |-> addVideoToZone(s, vt[videoId], lz[zoneId]), raised |-> FALSE]

AddVideoToZone(videoId, zoneId) ==
  /\ LET r == addVideoToZoneLookup(ZoneState(layoutZones, zones, videos),
                                   videoTextures, layoutZones, videoId, zoneId)
         s == r.s
     IN /\ videos' = s.videos
        /\ zones' = s.zones
        /\ layoutZones' = s.layoutZones
        /\ IF r.raised
             THEN /\ emitted' = Empty
                  /\ lastCall' = Call("addVideoToZone", << videoId, zoneId >>, "raised")
             ELSE /\ emitted' = emit(Empty, "layout-changed",
                                     [videoId |-> videoId, zoneId |-> zoneId],
                                     Observe(isInitialized, s.layoutZones,
                                             currentLayout, videoTextures, layers,
                                             width, height,
                                             Bound(s.layoutZones, s.zones), overlays,
                                             texturePool))
                  /\ lastCall' = Call("addVideoToZone", << videoId, zoneId >>, "ok")
  /\ steps' = Empty
  /\ UNCHANGED currentLayout
  /\ ZoneVarsUnchanged
  /\ UNCHANGED videoTimers
  /\ Deliver

CreateLayoutZone(id, r, layerName) ==
  /\ (layerName \in DOMAIN layers /\ id \in DOMAIN layoutZones) =>
        Cardinality(Orphans(layoutZones, zones)) < MaxOrphans
  /\ LET s == createLayoutZone(ZoneState(layoutZones, zones, videos), layers, id,
                               r.x * Milli, r.y * Milli, r.width * Milli,
                               r.height * Milli, layerName)
     IN /\ videos' = s.videos
        /\ zones' = s.zones
        /\ layoutZones' = s.layoutZones
        /\ steps' = s.steps
        /\ lastCall' = Call("createLayoutZone", << id, layerName, r >>,
                            IF s.raised THEN "raised" ELSE "ok")
  /\ emitted' = Empty
  /\ UNCHANGED currentLayout
  /\ ZoneVarsUnchanged
  /\ UNCHANGED videoTimers
  /\ Deliver

RemoveLayoutZone(id) ==
  /\ LET s == removeLayoutZone(ZoneState(layoutZones, zones, videos), id)
     IN /\ videos' = s.videos
        /\ zones' = s.zones
        /\ layoutZones' = s.layoutZones
        /\ steps' = s.steps
  /\ lastCall' = Call("removeLayoutZone", << id >>, "ok")
  /\ emitted' = Empty
  /\ UNCHANGED currentLayout
  /\ ZoneVarsUnchanged
  /\ UNCHANGED videoTimers
  /\ Deliver

\* applyLayout emitting 'layout-changed' before the new zones are created
applyLayoutEmittingEarly(s0, lay, layout0, layoutId, w, h, init, vt) ==
  IF layoutId \notin PresetIds
    THEN [s |-> s0, layout |-> layout0, emitted |-> Empty, raised |-> TRUE]
    ELSE
      LET preset == getLayoutPreset(layoutId)
          s1 == removeAll(s0, DOMAIN s0.layoutZones)
          zs == calculateZonePositions(preset.zones, w, h)
          s1e == [s1 EXCEPT !.steps = Append(s1.steps, <<"emit", "layout-changed">>)]
          s2 == createAll(s1e, lay, zs, 1)
      IN IF s2.raised
           THEN [s |-> s2, layout |-> layout0, emitted |-> Empty, raised |-> TRUE]
           ELSE [s |-> [s2 EXCEPT !.steps = Append(s2.steps, <<"set-layout", layoutId>>)],
                 layout |-> layoutId,
                 emitted |-> emit(Empty, "layout-changed",
                                  [layout |-> layoutId, zones |-> Len(zs)],
                                  Observe(init, s1.layoutZones, layout0, vt, lay, w, h,
                                          Bound(s1.layoutZones, s1.zones), overlays,
                                          texturePool)),
                 raised |-> FALSE]

\* applyLayout clearing the zones before it looks the preset up
applyLayoutClearingFirst(s0, lay, layout0, layoutId, w, h, init, vt) ==
  LET s1 == removeAll(s0, DOMAIN s0.layoutZones) IN
  IF layoutId \notin PresetIds
    THEN [s |-> s1, layout |-> layout0, emitted |-> Empty, raised |-> TRUE]
    ELSE
      LET preset == getLayoutPreset(layoutId)
          zs == calculateZonePositions(preset.zones, w, h)
          s2 == createAll(s1, lay, zs, 1)
      IN IF s2.raised
           THEN [s |-> s2, layout |-> layout0, emitted |-> Empty, raised |-> TRUE]
           ELSE [s |-> [s2 EXCEPT !.steps = s2.steps \o << <<"set-layout", layoutId>>,
                                                           <<"emit", "layout-changed">> >>],
                 layout |-> layoutId,
                 emitted |-> emit(Empty, "layout-changed",
                                  [layout |-> layoutId, zones |-> Len(zs)],
                                  Observe(init, s2.layoutZones, layoutId, vt, lay, w, h,
                                          Bound(s2.layoutZones, s2.zones), overlays,
                                          texturePool)),
                 raised |-> FALSE]

\* CanvasManager.applyLayout: r = [s, layout, emitted, raised]
applyLayout(s0, lay, layout0, layoutId, w, h, init, vt) ==
  IF layoutId \notin PresetIds
    THEN [s |-> s0, layout |-> layout0, emitted |-> Empty, raised |-> TRUE]
    ELSE
      LET preset == getLayoutPreset(layoutId)
          s1 == removeAll(s0, DOMAIN s0.layoutZones)
          zs == calculateZonePositions(preset.zones, w, h)
          s2 == createAll(s1, lay, zs, 1)
      IN IF s2.raised
           THEN [s |-> s2, layout |-> layout0, emitted |-> Empty, raised |-> TRUE]
           ELSE [s |-> [s2 EXCEPT !.steps = s2.steps \o << <<"set-layout", layoutId>>,
                                                           <<"emit", "layout-changed">> >>],
                 layout |-> layoutId,
                 emitted |-> emit(Empty, "layout-changed",
                                  [layout |-> layoutId, zones |-> Len(zs)],
                                  Observe(init, s2.layoutZones, layoutId, vt, lay, w, h,
                                          Bound(s2.layoutZones, s2.zones), overlays,
                                          texturePool)),
                 raised |-> FALSE]

ApplyLayout(layoutId) ==
  /\ LET r == applyLayout(ZoneState(layoutZones, zones, videos), layers, currentLayout,
                          layoutId, width, height, isInitialized, videoTextures)
     IN /\ videos' = r.s.videos
        /\ zones' = r.s.zones
        /\ layoutZones' = r.s.layoutZones
        /\ steps' = r.s.steps
        /\ currentLayout' = r.layout
        /\ emitted' = r.emitted
        /\ lastCall' = Call("applyLayout", << layoutId >>,
                            IF r.raised THEN "raised" ELSE "ok")
  /\ ZoneVarsUnchanged
  /\ UNCHANGED videoTimers
  /\ Deliver

(***************************************************************************)
(* The useCanvas composable.  Its wrappers call the manager's method and   *)
(* then copy the registry (mirrorLayoutZones); removeLayoutZone and        *)
(* removeVideoFromZone work on the refs alone.  videoTextures.value is set *)
(* to a copy of the manager's registry by the 'texture-created' listener   *)
(* at every registration and cleared with it by destroy, so the registry   *)
(* stands for it.                                                          *)
(***************************************************************************)
\* useCanvas.removeVideoFromZone on the mirror m: the sprite registered under
\* videoId leaves its parent, and the first zone of the mirror whose
\* videoTexture has that id loses it (the callers here keep a resource bound
\* to at most one zone, so the Map's order does not matter)
removeVideoFromZone(m, zs, vs, vt, videoId) ==
  LET vs1 == IF videoId \in DOMAIN vt /\ vs[vt[videoId]].parent # 0
               THEN [vs EXCEPT ![vt[videoId]] = Unfitted(vs[vt[videoId]])]
               ELSE vs
      bound == { z \in Range(m) :
                   zs[z].videoTexture # 0 /\ vs[zs[z].videoTexture].id = videoId }
  IN [videos |-> vs1,
      zones |-> IF bound = {} THEN zs
                ELSE [zs EXCEPT ![CHOOSE z \in bound : TRUE].videoTexture = 0]]

\* useCanvas.removeLayoutZone(id): the zone is looked up in the mirror, its
\* resource and its container are detached and the mirror entry is deleted;
\* the manager is not called
useCanvasRemoveLayoutZone(id) ==
  /\ useCanvas.mounted
  /\ steps' = Empty
  /\ emitted' = Empty
  /\ IF id \notin DOMAIN useCanvas.layoutZones
       THEN /\ lastCall' = Call("useCanvas.removeLayoutZone", << id >>, "noop")
            /\ UNCHANGED << videos, zones, useCanvas >>
       ELSE LET z == useCanvas.layoutZones[id]
                r == IF zones[z].videoTexture # 0
                       THEN removeVideoFromZone(useCanvas.layoutZones, zones, videos,
                                                videoTextures,
                                                videos[zones[z].videoTexture].id)
                       ELSE [videos |-> videos, zones |-> zones]
            IN /\ videos' = r.videos
               \* zone.container.parent.removeChild(zone.container)
               /\ zones' = [r.zones EXCEPT ![z].parent = 0]
               \* layoutZones.value.delete(id)
               /\ useCanvas' = [useCanvas EXCEPT !.layoutZones =
                                  Restrict(@, DOMAIN @ \ {id})]
               /\ lastCall' = Call("useCanvas.removeLayoutZone", << id >>, "ok")
  /\ UNCHANGED << layoutZones, currentLayout >>
  /\ ZoneVarsUnchanged
  /\ UNCHANGED videoTimers
  /\ DeliverToListeners

(***************************************************************************)
(* resize(width, height)                                                   *)
(***************************************************************************)
Resize(w, h) ==
  /\ steps' = Empty
  /\ IF app = 0
       THEN /\ lastCall' = Call("resize", << w, h >>, "noop")
            /\ emitted' = Empty
            /\ UNCHANGED << width, height >>
       ELSE IF apps[app] # "ready"
         THEN \* this.state.app.renderer is undefined: renderer.resize throws
              /\ lastCall' = Call("resize", << w, h >>, "raised")
              /\ emitted' = Empty
              /\ UNCHANGED << width, height >>
         ELSE /\ width' = w
              /\ height' = h
              /\ emitted' = emit(Empty, "layout-changed", [width |-> w, height |-> h],
                                 Observe(isInitialized, layoutZones, currentLayout,
                                         videoTextures, layers, width', height',
                                         Bound(layoutZones, zones), overlays,
                                         texturePool))
              /\ lastCall' = Call("resize", << w, h >>, "ok")
  /\ UNCHANGED << app, apps, pendingInit, isInitialized, layers, stage, videoTextures,
                  videos, pendingVideo, layoutZones, zones, currentLayout,
                  overlayManager, omDestroyed, overlays, overlayNodes, pendingOverlay, texturePool,
                  perfInterval, perfTimers, cleanupTimers, textureCount, fps, frameCount, framesRendered, inits >>
  /\ UNCHANGED videoTimers
  /\ Deliver


(***************************************************************************)
(* Overlays                                                                *)
(***************************************************************************)
FreeNodeIds == (1..MaxOverlayNodes) \ DOMAIN overlayNodes
NewNodeId == CHOOSE n \in FreeNodeIds : \A m \in FreeNodeIds : n <= m

\* value ?? fallback, for an optional field of a configuration
Opt(config, field, fallback) ==
  IF field \in DOMAIN config THEN config[field] ELSE fallback

\* A node is the Container an overlay is drawn in: the OverlayManager whose
\* container it was added to, its position, zIndex and visible, and the
\* contents of its Text children, in child order.
\* OverlayManager.createTextOverlay
createTextOverlay(om, config) ==
  [om |-> om, id |-> config.id, type |-> "text", x |-> config.x, y |-> config.y,
   zIndex |-> Opt(config, "zIndex", 100),
   visible |-> Opt(config, "visible", TRUE),
   texts |-> << config.content >>]

\* OverlayManager.createImageOverlay, after the texture is there
createImageOverlay(om, config) ==
  [om |-> om, id |-> config.id, type |-> config.type, x |-> config.x, y |-> config.y,
   zIndex |-> Opt(config, "zIndex", 50),
   visible |-> Opt(config, "visible", TRUE),
   texts |-> << >>]

\* a lower third whose zIndex falls back to the default of a text overlay
createLowerThirdAsText(om, config) ==
  [om |-> om, id |-> config.id, type |-> "lower-third", x |-> config.x, y |-> config.y,
   zIndex |-> Opt(config, "zIndex", 100),
   visible |-> Opt(config, "visible", TRUE),
   texts |-> IF Opt(config, "subtitle", "") # ""
               THEN << config.title, config.subtitle >>
               ELSE << config.title >>]

\* OverlayManager.createLowerThird: a subtitle Text only if (config.subtitle)
createLowerThird(om, config) ==
  [om |-> om, id |-> config.id, type |-> "lower-third", x |-> config.x, y |-> config.y,
   zIndex |-> Opt(config, "zIndex", 75),
   visible |-> Opt(config, "visible", TRUE),
   texts |-> IF Opt(config, "subtitle", "") # ""
               THEN << config.title, config.subtitle >>
               ELSE << config.title >>]

\* the switch of CanvasManager.createOverlay
createNode(om, config) ==
  CASE config.type = "text" -> createTextOverlay(om, config)
    [] config.type \in {"image", "logo"} -> createImageOverlay(om, config)
    [] OTHER -> createLowerThird(om, config)

TextConfigs == { [id |-> i, type |-> "text", x |-> 10, y |-> 20, content |-> "live"] :
                   i \in OverlayIdArgs }

\* the optional zIndex and visible of a configuration: both left out, both
\* given with the values `??` must keep, or one of them given
OverlayOptions ==
  { << >>, [zIndex |-> 0, visible |-> FALSE], [zIndex |-> 7], [visible |-> FALSE] }

\* configurations of the three kinds of overlay
OverlayConfigs ==
  { opt @@ base :
      opt \in OverlayOptions,
      base \in { [id |-> "title", type |-> "text", x |-> 10, y |-> 20, content |-> "live"],
                 [id |-> "logo", type |-> "image", x |-> 5, y |-> 6, source |-> "logo.png"],
                 [id |-> "logo", type |-> "logo", x |-> 5, y |-> 6, source |-> "logo.png"],
                 [id |-> "name", type |-> "lower-third", x |-> 0, y |-> 900,
                  title |-> "Ada", width |-> 400, height |-> 80],
                 [id |-> "name", type |-> "lower-third", x |-> 0, y |-> 900,
                  title |-> "Ada", subtitle |-> "host", width |-> 400, height |-> 80] } }

OverlayIds == { c.id : c \in OverlayConfigs } \cup {"no-such-overlay"}

OverlayVarsUnchanged ==
  UNCHANGED << app, apps, pendingInit, isInitialized, width, height, layers, stage,
               videoTextures, videos, pendingVideo, layoutZones, zones, currentLayout,
               overlayManager, omDestroyed, texturePool, perfInterval, perfTimers,
               cleanupTimers, textureCount, fps, frameCount, framesRendered, inits >>

\* CanvasManager.createOverlay: text and lower-third overlays are created
\* before it returns; an image or logo overlay is created when the awaited
\* createImageOverlay of the OverlayManager goes on
CreateOverlay(config) ==
  /\ steps' = Empty
  /\ IF overlayManager = 0
       THEN /\ lastCall' = Call("createOverlay", << config.id >>, "raised")
            /\ emitted' = Empty
            /\ UNCHANGED << overlays, overlayNodes, pendingOverlay >>
       ELSE IF config.type \in {"image", "logo"}
         THEN /\ Cardinality(pendingOverlay) + Cardinality(DOMAIN overlayNodes)
                   < MaxOverlayNodes
              /\ \A p \in pendingOverlay : p.config.id # config.id
              /\ pendingOverlay' = pendingOverlay \cup
                                     { [om |-> overlayManager, config |-> config] }
              /\ lastCall' = Call("createOverlay", << config.id, config >>, "pending")
              /\ emitted' = Empty
              /\ UNCHANGED << overlays, overlayNodes >>
         ELSE /\ Cardinality(pendingOverlay) + Cardinality(DOMAIN overlayNodes)
                   < MaxOverlayNodes
              /\ overlayNodes' = (NewNodeId :> createNode(overlayManager, config))
                                   @@ overlayNodes
              /\ overlays' = (config.id :> NewNodeId) @@ overlays
              /\ emitted' = emit(Empty, "overlay-created",
                                 [id |-> config.id, type |-> config.type],
                                 Observe(isInitialized, layoutZones, currentLayout,
                                         videoTextures, layers, width, height,
                                         Bound(layoutZones, zones), overlays',
                                         texturePool))
              /\ lastCall' = Call("createOverlay", << config.id, config >>, "ok")
              /\ UNCHANGED pendingOverlay
  /\ OverlayVarsUnchanged
  /\ UNCHANGED videoTimers
  /\ Deliver

\* the awaited createImageOverlay of call p goes on: the node is added to the
\* container and the registry of the OverlayManager the call started on, and
\* createOverlay emits 'overlay-created'
ImageOverlayLoaded(p) ==
  /\ p \in pendingOverlay
  /\ pendingOverlay' = pendingOverlay \ {p}
  /\ steps' = Empty
  /\ IF p.om = overlayManager
       THEN /\ overlayNodes' = (NewNodeId :> createNode(p.om, p.config)) @@ overlayNodes
            /\ overlays' = (p.config.id :> NewNodeId) @@ overlays
       ELSE \* that OverlayManager is not the manager's any more
            UNCHANGED << overlays, overlayNodes >>
  /\ emitted' = emit(Empty, "overlay-created",
                     [id |-> p.config.id, type |-> p.config.type],
                     Observe(isInitialized, layoutZones, currentLayout,
                             videoTextures, layers, width, height,
                             Bound(layoutZones, zones), overlays', texturePool))
  /\ lastCall' = Call("createImageOverlay", << p.config.id, p.config >>, "ok")
  /\ OverlayVarsUnchanged
  /\ UNCHANGED videoTimers
  /\ Deliver

\* OverlayManager.moveOverlay, on the registry reg and the nodes
moveOverlay(reg, nodes, id, x, y) ==
  IF id \in DOMAIN reg THEN [nodes EXCEPT ![reg[id]].x = x, ![reg[id]].y = y] ELSE nodes

\* OverlayManager.setOverlayVisibility
setOverlayVisibility(reg, nodes, id, visible) ==
  IF id \in DOMAIN reg THEN [nodes EXCEPT ![reg[id]].visible = visible] ELSE nodes

\* OverlayManager.updateTextOverlay: the first Text child, if there is one
updateTextOverlay(reg, nodes, id, content) ==
  IF id \in DOMAIN reg /\ Len(nodes[reg[id]].texts) > 0
    THEN [nodes EXCEPT ![reg[id]].texts[1] = content]
    ELSE nodes

\* OverlayManager.updateLowerThird; subtitle is << >> when the argument is
\* left out.  texts[1].text = subtitle only if (texts.length > 1 && subtitle)
updateLowerThird(reg, nodes, id, title, subtitle) ==
  IF id \in DOMAIN reg /\ Len(nodes[reg[id]].texts) > 0
    THEN LET n1 == [nodes EXCEPT ![reg[id]].texts[1] = title]
         IN IF Len(nodes[reg[id]].texts) > 1 /\ subtitle # << >> /\ subtitle[1] # ""
              THEN [n1 EXCEPT ![reg[id]].texts[2] = subtitle[1]]
              ELSE n1
    ELSE nodes

\* updates passed to CanvasManager.updateOverlay
OverlayUpdates ==
  { [x |-> 30, y |-> 40], [visible |-> FALSE],
    [type |-> "text", content |-> "on air"],
    [type |-> "lower-third", title |-> "Grace", subtitle |-> "guest"] }

\* CanvasManager.updateOverlay
updateOverlay(reg, nodes, id, updates) ==
  LET n1 == IF "x" \in DOMAIN updates \/ "y" \in DOMAIN updates
              THEN moveOverlay(reg, nodes, id, Opt(updates, "x", 0), Opt(updates, "y", 0))
              ELSE nodes
      n2 == IF "visible" \in DOMAIN updates
              THEN setOverlayVisibility(reg, n1, id, updates.visible)
              ELSE n1
      n3 == IF Opt(updates, "type", "") = "text" /\ "content" \in DOMAIN updates
              THEN updateTextOverlay(reg, n2, id, updates.content)
              ELSE n2
  IN IF Opt(updates, "type", "") = "lower-third"
          /\ ("title" \in DOMAIN updates \/ "subtitle" \in DOMAIN updates)
       THEN updateLowerThird(reg, n3, id, updates.title,
                             IF "subtitle" \in DOMAIN updates
                               THEN << updates.subtitle >> ELSE << >>)
       ELSE n3

UpdateOverlay(id, updates) ==
  /\ steps' = Empty
  /\ IF overlayManager = 0
       THEN /\ lastCall' = Call("updateOverlay", << id >>, "noop")
            /\ emitted' = Empty
            /\ UNCHANGED overlayNodes
       ELSE /\ overlayNodes' = updateOverlay(overlays, overlayNodes, id, updates)
            /\ emitted' = emit(Empty, "overlay-updated", [id |-> id, updates |-> updates],
                               Observe(isInitialized, layoutZones, currentLayout,
                                       videoTextures, layers, width, height,
                                       Bound(layoutZones, zones), overlays,
                                       texturePool))
            /\ lastCall' = Call("updateOverlay", << id, updates >>, "ok")
  /\ UNCHANGED << overlays, pendingOverlay >>
  /\ OverlayVarsUnchanged
  /\ UNCHANGED videoTimers
  /\ Deliver

\* OverlayManager.updateTextOverlay, called on the manager's OverlayManager
UpdateTextOverlay(id, content) ==
  /\ overlayManager # 0
  /\ steps' = Empty
  /\ emitted' = Empty
  /\ overlayNodes' = updateTextOverlay(overlays, overlayNodes, id, content)
  /\ lastCall' = Call("updateTextOverlay", << id, content >>, "ok")
  /\ UNCHANGED << overlays, pendingOverlay >>
  /\ OverlayVarsUnchanged
  /\ UNCHANGED videoTimers
  /\ Deliver

\* OverlayManager.updateLowerThird, called on the manager's OverlayManager
UpdateLowerThird(id, title, subtitle) ==
  /\ overlayManager # 0
  /\ steps' = Empty
  /\ emitted' = Empty
  /\ overlayNodes' = updateLowerThird(overlays, overlayNodes, id, title, subtitle)
  /\ lastCall' = Call("updateLowerThird", << id, title, subtitle >>, "ok")
  /\ UNCHANGED << overlays, pendingOverlay >>
  /\ OverlayVarsUnchanged
  /\ UNCHANGED videoTimers
  /\ Deliver

\* CanvasManager.removeOverlay -> OverlayManager.removeOverlay
RemoveOverlay(id) ==
  /\ steps' = Empty
  /\ IF overlayManager = 0
       THEN /\ lastCall' = Call("removeOverlay", << id >>, "noop")
            /\ emitted' = Empty
            /\ UNCHANGED << overlays, overlayNodes >>
       ELSE /\ IF id \in DOMAIN overlays
                 THEN /\ overlayNodes' = Restrict(overlayNodes,
                                                  DOMAIN overlayNodes \ {overlays[id]})
                      /\ overlays' = Restrict(overlays, DOMAIN overlays \ {id})
                 ELSE UNCHANGED << overlays, overlayNodes >>
            /\ emitted' = emit(Empty, "overlay-removed", [id |-> id],
                               Observe(isInitialized, layoutZones, currentLayout,
                                       videoTextures, layers, width, height,
                                       Bound(layoutZones, zones), overlays',
                                       texturePool))
            /\ lastCall' = Call("removeOverlay", << id >>, "ok")
  /\ UNCHANGED pendingOverlay
  /\ OverlayVarsUnchanged
  /\ UNCHANGED videoTimers
  /\ Deliver

\* OverlayManager.clearAllOverlays: removeOverlay for every id in the registry
clearAllOverlays(reg, nodes) ==
  [overlays |-> Empty,
   nodes |-> Restrict(nodes, DOMAIN nodes \ Range(reg))]

\* OverlayManager.clearAllOverlays, called on the manager's OverlayManager
ClearAllOverlays ==
  /\ overlayManager # 0
  /\ steps' = Empty
  /\ emitted' = Empty
  /\ overlays' = clearAllOverlays(overlays, overlayNodes).overlays
  /\ overlayNodes' = clearAllOverlays(overlays, overlayNodes).nodes
  /\ lastCall' = Call("clearAllOverlays", << >>, "ok")
  /\ UNCHANGED pendingOverlay
  /\ OverlayVarsUnchanged
  /\ UNCHANGED videoTimers
  /\ Deliver

(***************************************************************************)
(* The two periodic tasks                                                  *)
(***************************************************************************)
\* Math.round(a / b) for a >= 0, b > 0
Round(a, b) == (2 * a + b) \div (2 * b)

\* updatePerformanceMetrics, "Calculate FPS": frameCount++, and when the
\* window is at least a second old, fps and a new window
updateFps(fps0, frameCount0, deltaTime) ==
  IF deltaTime >= 1000
    THEN [fps |-> Round((frameCount0 + 1) * 1000, deltaTime), frameCount |-> 0]
    ELSE [fps |-> fps0, frameCount |-> frameCount0 + 1]

\* a sampling interval fires: updatePerformanceMetrics; deltaTime is
\* Date.now() - performanceMonitor.startTime
PerformanceTick(handle, deltaTime) ==
  /\ handle \in perfTimers
  /\ steps' = Empty
  /\ IF app = 0
       THEN /\ lastCall' = Call("updatePerformanceMetrics", << handle >>, "noop")
            /\ emitted' = Empty
            /\ UNCHANGED << textureCount, fps, frameCount, framesRendered >>
       ELSE /\ deltaTime < 1000 => frameCount < MaxFrames
            /\ LET m == updateFps(fps, frameCount, deltaTime)
               IN /\ fps' = m.fps
                  /\ frameCount' = m.frameCount
                  \* performanceMonitor.startTime = now starts a new window
                  /\ framesRendered' = IF deltaTime >= 1000 THEN 0 ELSE framesRendered
            /\ textureCount' = Cardinality(DOMAIN videoTextures)
            /\ emitted' = emit(Empty, "performance-update",
                               [fps |-> fps', textureCount |-> textureCount'], Seen)
            /\ lastCall' = Call("updatePerformanceMetrics", << handle, deltaTime >>, "ok")
  /\ UNCHANGED << app, apps, pendingInit, isInitialized, width, height, layers, stage,
                  videoTextures, videos, pendingVideo, layoutZones, zones,
                  currentLayout, overlayManager, omDestroyed, overlays, overlayNodes, pendingOverlay,
                  texturePool, perfInterval, perfTimers, cleanupTimers, inits >>
  /\ UNCHANGED videoTimers
  /\ Deliver

\* the render loop of the initialized Application draws a frame
RenderFrame ==
  /\ app # 0
  /\ apps[app] = "ready"
  /\ framesRendered < MaxFrames
  /\ framesRendered' = framesRendered + 1
  /\ steps' = Empty
  /\ emitted' = Empty
  /\ lastCall' = Call("render", << >>, "ok")
  /\ UNCHANGED << app, apps, pendingInit, isInitialized, width, height, layers, stage,
                  videoTextures, videos, pendingVideo, layoutZones, zones,
                  currentLayout, overlayManager, omDestroyed, overlays, overlayNodes, pendingOverlay,
                  texturePool, perfInterval, perfTimers, cleanupTimers, textureCount, fps,
                  frameCount, inits >>
  /\ UNCHANGED videoTimers
  /\ Deliver

maxAge == 60000

\* a cleanup that looks at the idle time only
cleanupTexturePoolIgnoringUse(pool, now) ==
  LET gone == { k \in DOMAIN pool : (now - pool[k].lastUsed) > maxAge }
  IN [pool |-> Restrict(pool, DOMAIN pool \ gone), released |-> gone]

\* cleanupTexturePool: every entry with !entry.isInUse && (now - entry.lastUsed)
\* > maxAge has its texture destroyed and is deleted from the map
cleanupTexturePool(pool, now) ==
  LET gone == { k \in DOMAIN pool :
                  ~pool[k].isInUse /\ (now - pool[k].lastUsed) > maxAge }
  IN [pool |-> Restrict(pool, DOMAIN pool \ gone), released |-> gone]

\* the keys of a set, in the order the map iterates them
InOrder(keys) == SelectSeq(PoolKeyOrder, LAMBDA k : k \in keys)

\* a pool-cleanup interval fires; now is Date.now()
CleanupTick(handle, now) ==
  /\ handle \in cleanupTimers
  /\ LET r == cleanupTexturePool(texturePool, now)
     IN /\ texturePool' = r.pool
        /\ steps' = [i \in DOMAIN InOrder(r.released) |->
                       <<"destroy-texture", InOrder(r.released)[i]>>]
  /\ emitted' = Empty
  /\ lastCall' = Call("cleanupTexturePool", << handle, now >>, "ok")
  /\ UNCHANGED << app, apps, pendingInit, isInitialized, width, height, layers, stage,
                  videoTextures, videos, pendingVideo, layoutZones, zones,
                  currentLayout, overlayManager, omDestroyed, overlays, overlayNodes, pendingOverlay,
                  perfInterval, perfTimers, cleanupTimers, textureCount, fps, frameCount, framesRendered, inits >>
  /\ UNCHANGED videoTimers
  /\ Deliver

(***************************************************************************)
(* on(eventType, listener) and off(eventType, listener)                    *)
(***************************************************************************)
BusVarsUnchanged ==
  UNCHANGED << app, apps, pendingInit, isInitialized, width, height, layers, stage,
               videoTextures, videos, pendingVideo, layoutZones, zones, currentLayout,
               overlayManager, omDestroyed, overlays, overlayNodes, pendingOverlay, texturePool,
               perfInterval, perfTimers, cleanupTimers, textureCount, fps, frameCount, framesRendered, videoTimers,
               useCanvas, inits >>

On(type, l) ==
  /\ type \in DOMAIN eventListeners => Len(eventListeners[type]) < MaxListeners
  /\ eventListeners' = on(eventListeners, type, l)
  /\ lastCall' = Call("on", << type, l >>, "ok")
  /\ steps' = Empty
  /\ emitted' = Empty
  /\ delivered' = Empty
  /\ BusVarsUnchanged

Off(type, l) ==
  /\ eventListeners' = off(eventListeners, type, l)
  /\ lastCall' = Call("off", << type, l >>, "ok")
  /\ steps' = Empty
  /\ emitted' = Empty
  /\ delivered' = Empty
  /\ BusVarsUnchanged

(***************************************************************************)
(* The specification                                                       *)
(***************************************************************************)
Next ==
  \/ InitializeCall
  \/ \E a \in 1..MaxInits : InitResolve(a)
  \/ \E a \in 1..MaxInits : InitReject(a)
  \/ Destroy
  \/ \E src \in VideoSources : CreateVideoTextureCall(src.id)
  \/ \E src \in VideoSources : VideoReady(src.id)
  \/ \E src \in VideoSources : VideoFail(src.id)
  \/ \E src \in VideoSources : VideoTimeoutLate(src.id)
  \/ \E v \in VideoIdArgs, z \in ZoneIdArgs : AddVideoToZone(v, z)
  \/ \E id \in ZoneIdArgs, r \in ManualRects, l \in LayerArgs : CreateLayoutZone(id, r, l)
  \/ \E id \in ZoneIdArgs : RemoveLayoutZone(id)
  \/ \E l \in LayoutIdArgs : ApplyLayout(l)
  \/ \E sz \in ResizeArgs : Resize(sz[1], sz[2])
  \/ \E c \in TextConfigs : CreateOverlay(c)
  \/ \E id \in OverlayIdArgs : RemoveOverlay(id)
  \/ \E hd \in 1..MaxInits : PerformanceTick(hd, SampleInterval)
  \/ \E hd \in 1..MaxInits, now \in NowArgs : CleanupTick(hd, now)
  \/ \E type \in EventTypeArgs, l \in ListenerArgs : On(type, l)
  \/ \E type \in EventTypeArgs, l \in ListenerArgs : Off(type, l)

Spec == Init /\ [][Next]_vars


(***************************************************************************)
(* Spec restricted to a caller that arranges layouts: it initializes the   *)
(* manager once, applies presets, creates zones by hand under ids that are *)
(* free, removes zones, shows one camera resource, and may destroy the     *)
(* manager.                                                                *)
(***************************************************************************)
NextLayout ==
  \/ inits = 0 /\ InitializeCall
  \/ \E a \in 1..MaxInits : InitResolve(a)
  \/ Destroy
  \/ pendingVideo = {} /\ "cam" \notin DOMAIN videoTextures /\ CreateVideoTextureCall("cam")
  \/ VideoReady("cam")
  \/ \E z \in ZoneIdArgs : AddVideoToZone("cam", z)
  \/ \E id \in ZoneIdArgs, r \in ManualRects :
        id \notin DOMAIN layoutZones /\ CreateLayoutZone(id, r, "video")
  \/ \E id \in ZoneIdArgs : RemoveLayoutZone(id)
  \/ \E l \in LayoutIdArgs : ApplyLayout(l)

SpecLayout == Init /\ [][NextLayout]_vars

(***************************************************************************)
(* Spec restricted to a caller that binds video resources to zones: it     *)
(* initializes the manager once, creates each of two video resources once, *)
(* one at a time, and moves them between the zones of the two smallest     *)
(* presets and zones created by hand under ids that are free.              *)
(***************************************************************************)
BindingLayouts == {"single-speaker", "picture-in-picture"}

NextBinding ==
  \/ inits = 0 /\ InitializeCall
  \/ \E a \in 1..MaxInits : InitResolve(a)
  \/ \E src \in VideoSources :
        /\ pendingVideo = {}
        /\ src.id \notin DOMAIN videoTextures
        /\ CreateVideoTextureCall(src.id)
  \/ \E src \in VideoSources : VideoReady(src.id)
  \/ \E v \in VideoIdArgs, z \in ZoneIdArgs : AddVideoToZone(v, z)
  \/ \E id \in ZoneIdArgs, r \in ManualRects :
        id \notin DOMAIN layoutZones /\ CreateLayoutZone(id, r, "video")
  \/ \E id \in ZoneIdArgs : RemoveLayoutZone(id)
  \/ \E l \in BindingLayouts : ApplyLayout(l)

SpecBinding == Init /\ [][NextBinding]_vars

(***************************************************************************)
(* Spec restricted to a caller that exercises the life cycle: overlapping  *)
(* and repeated initialize/destroy, the periodic tasks, and one camera     *)
(* resource, one layout and one overlay to populate the registries.        *)
(***************************************************************************)
NextLifecycle ==
  \/ InitializeCall
  \/ \E a \in 1..MaxInits : InitResolve(a)
  \/ \E a \in 1..MaxInits : InitReject(a)
  \/ Destroy
  \/ CreateVideoTextureCall("cam")
  \/ VideoReady("cam")
  \/ VideoFail("cam")
  \/ AddVideoToZone("cam", "main")
  \/ ApplyLayout("single-speaker")
  \/ \E c \in TextConfigs : CreateOverlay(c)
  \/ \E id \in OverlayIdArgs : RemoveOverlay(id)
  \/ \E hd \in 1..MaxInits : PerformanceTick(hd, SampleInterval)
  \/ \E hd \in 1..MaxInits : CleanupTick(hd, maxAge)

SpecLifecycle == Init /\ [][NextLifecycle]_vars


(***************************************************************************)
(* Spec restricted to a caller that awaits initialize() before it uses the *)
(* manager: it initializes once, creates camera and screen resources (also *)
(* again under an id already in use), shows the camera in the zone of the  *)
(* single-speaker preset, and destroys the manager.                        *)
(***************************************************************************)
NextTeardown ==
  \/ inits = 0 /\ InitializeCall
  \/ \E a \in 1..MaxInits : InitResolve(a)
  \/ \E src \in VideoSources : isInitialized /\ CreateVideoTextureCall(src.id)
  \/ \E src \in VideoSources : isInitialized /\ VideoReady(src.id)
  \/ isInitialized /\ AddVideoToZone("cam", "main")
  \/ isInitialized /\ ApplyLayout("single-speaker")
  \/ isInitialized /\ RemoveLayoutZone("main")
  \/ Destroy

SpecTeardown == Init /\ [][NextTeardown]_vars


(***************************************************************************)
(* Spec restricted to a caller that calls initialize() again and again,    *)
(* also on an initialized manager holding a camera resource, the zone of   *)
(* the single-speaker preset and a text overlay, and destroys it between.  *)
(***************************************************************************)
NextReinit ==
  \/ InitializeCall
  \/ \E a \in 1..MaxInits : InitResolve(a)
  \/ Destroy
  \/ isInitialized /\ "cam" \notin DOMAIN videoTextures /\ CreateVideoTextureCall("cam")
  \/ VideoReady("cam")
  \/ isInitialized /\ ApplyLayout("single-speaker")
  \/ \E c \in TextConfigs :
        isInitialized /\ c.id \notin DOMAIN overlays /\ CreateOverlay(c)
  \/ \E hd \in 1..MaxInits : hd = perfInterval /\ PerformanceTick(hd, SampleInterval)
  \/ \E a \in 1..MaxInits : InitReject(a)
  \/ isInitialized /\ AddVideoToZone("cam", "main")
  \/ \E id \in OverlayIdArgs : isInitialized /\ RemoveOverlay(id)
  \/ \E sz \in ResizeArgs : isInitialized /\ Resize(sz[1], sz[2])

SpecReinit == Init /\ [][NextReinit]_vars


(***************************************************************************)
(* Spec restricted to a caller that creates and removes zones by hand, on  *)
(* existing and missing layers, before initialize, while it is pending,    *)
(* after it failed, on the initialized manager and after destroy.  It      *)
(* starts one initialize at a time and reuses a registered id only while   *)
(* no earlier zone container is left unregistered under a layer.           *)
(***************************************************************************)
NextZones ==
  \/ pendingInit = {} /\ InitializeCall
  \/ \E a \in 1..MaxInits : InitResolve(a)
  \/ \E a \in 1..MaxInits : InitReject(a)
  \/ Destroy
  \/ \E id \in ZoneIdArgs, r \in ZoneRectArgs, l \in ZoneLayerArgs :
        Orphans(layoutZones, zones) = {} /\ CreateLayoutZone(id, r, l)
  \/ \E id \in ZoneIdArgs : RemoveLayoutZone(id)

SpecZones == Init /\ [][NextZones]_vars


(***************************************************************************)
(* Spec restricted to a caller that resizes the surface at any time:       *)
(* before initialize, while it is pending, after it failed, on the         *)
(* initialized manager (with the single-speaker zone) and after destroy.   *)
(***************************************************************************)
NextResize ==
  \/ pendingInit = {} /\ InitializeCall
  \/ \E a \in 1..MaxInits : InitResolve(a)
  \/ \E a \in 1..MaxInits : InitReject(a)
  \/ Destroy
  \/ isInitialized /\ ApplyLayout("single-speaker")
  \/ \E sz \in SizeArgs : Resize(sz[1], sz[2])

SpecResize == Init /\ [][NextResize]_vars


(***************************************************************************)
(* Spec restricted to the texture pool: the pool holds entries when the    *)
(* manager is initialized, the cleanup interval fires at several clock     *)
(* values, and the manager is destroyed.                                   *)
(***************************************************************************)
NextPool ==
  \/ inits = 0 /\ InitializeCall
  \/ \E a \in 1..MaxInits : InitResolve(a)
  \/ \E hd \in 1..MaxInits, now \in NowArgs : CleanupTick(hd, now)
  \/ Destroy

SpecPool == InitPool /\ [][NextPool]_vars


(***************************************************************************)
(* Spec restricted to performance sampling: the manager is initialized     *)
(* once, the render loop draws frames, camera and screen resources come    *)
(* and go, and the sampling interval fires early, on time and late.        *)
(***************************************************************************)
NextPerf ==
  \/ inits = 0 /\ InitializeCall
  \/ \E a \in 1..MaxInits : InitResolve(a)
  \/ RenderFrame
  \/ \E src \in VideoSources :
        /\ isInitialized
        /\ pendingVideo = {}
        /\ src.id \notin DOMAIN videoTextures
        /\ CreateVideoTextureCall(src.id)
  \/ \E src \in VideoSources : VideoReady(src.id)
  \/ \E hd \in 1..MaxInits, dt \in DeltaArgs : PerformanceTick(hd, dt)
  \/ Destroy

SpecPerf == Init /\ [][NextPerf]_vars


(***************************************************************************)
(* Spec restricted to a caller that creates overlays on a manager it       *)
(* initialized once: text, image, logo and lower-third overlays, with and  *)
(* without zIndex and visible, under ids that are free, and removes them.  *)
(***************************************************************************)
NextOverlay ==
  \/ inits = 0 /\ InitializeCall
  \/ \E a \in 1..MaxInits : InitResolve(a)
  \/ \E c \in OverlayConfigs :
        isInitialized /\ c.id \notin DOMAIN overlays /\ CreateOverlay(c)
  \/ \E p \in pendingOverlay : ImageOverlayLoaded(p)
  \/ \E id \in OverlayIds : RemoveOverlay(id)

SpecOverlay == Init /\ [][NextOverlay]_vars


(***************************************************************************)
(* Spec restricted to a caller that updates overlays on a manager it       *)
(* initialized once: it creates text and lower-third overlays that leave   *)
(* zIndex and visible to the defaults, updates them through the manager    *)
(* and through the OverlayManager, and removes them, also under ids never  *)
(* registered.                                                             *)
(***************************************************************************)
NextOverlayUpdate ==
  \/ inits = 0 /\ InitializeCall
  \/ \E a \in 1..MaxInits : InitResolve(a)
  \/ \E c \in OverlayConfigs :
        /\ isInitialized
        /\ c.id \notin DOMAIN overlays
        /\ "zIndex" \notin DOMAIN c
        /\ "visible" \notin DOMAIN c
        /\ c.type \in {"text", "lower-third"}
        /\ CreateOverlay(c)
  \/ \E id \in OverlayIds, u \in OverlayUpdates : UpdateOverlay(id, u)
  \/ \E id \in OverlayIds : UpdateTextOverlay(id, "on air")
  \/ \E id \in OverlayIds, subtitle \in { << >>, << "guest" >> } :
        UpdateLowerThird(id, "Grace", subtitle)
  \/ \E id \in OverlayIds : RemoveOverlay(id)

SpecOverlayUpdate == Init /\ [][NextOverlayUpdate]_vars


(***************************************************************************)
(* Spec restricted to a caller that creates text and lower-third overlays  *)
(* on a manager it initialized once without looking whether the id is      *)
(* registered already, removes overlays and clears them all.               *)
(***************************************************************************)
NextOverlayReuse ==
  \/ inits = 0 /\ InitializeCall
  \/ \E a \in 1..MaxInits : InitResolve(a)
  \/ \E c \in OverlayConfigs :
        isInitialized /\ c.type \in {"text", "lower-third"} /\ CreateOverlay(c)
  \/ \E id \in OverlayIds : RemoveOverlay(id)
  \/ ClearAllOverlays

SpecOverlayReuse == Init /\ [][NextOverlayReuse]_vars

(***************************************************************************)
(* Spec restricted to a caller that moves and hides overlays on a manager  *)
(* it initialized once: it creates text and lower-third overlays, shown or *)
(* hidden, under free ids and updates them with one coordinate, with both, *)
(* or with the visibility.                                                 *)
(***************************************************************************)
\* updates naming some of x, y and visible
PlacementUpdates ==
  { [x |-> 30], [y |-> 40], [x |-> 30, y |-> 40], [visible |-> FALSE],
    [x |-> 0, visible |-> TRUE] }

NextOverlayPlacement ==
  \/ inits = 0 /\ InitializeCall
  \/ \E a \in 1..MaxInits : InitResolve(a)
  \/ \E c \in OverlayConfigs :
        /\ isInitialized
        /\ c.id \notin DOMAIN overlays
        /\ "zIndex" \notin DOMAIN c
        /\ c.type \in {"text", "lower-third"}
        /\ CreateOverlay(c)
  \/ \E id \in OverlayIds, u \in PlacementUpdates : UpdateOverlay(id, u)

SpecOverlayPlacement == Init /\ [][NextOverlayPlacement]_vars

(***************************************************************************)
(* Spec restricted to a caller that uses the manager through useCanvas():  *)
(* it initializes once, creates the camera resource, creates zones under   *)
(* ids the mirror does not hold, removes zones through the composable,     *)
(* applies presets, shows the camera in a zone while no zone shows it, and *)
(* resizes.                                                                *)
(***************************************************************************)
NextUseCanvas ==
  \/ inits = 0 /\ InitializeCall
  \/ \E a \in 1..MaxInits : InitResolve(a)
  \/ pendingVideo = {} /\ "cam" \notin DOMAIN videoTextures /\ CreateVideoTextureCall("cam")
  \/ VideoReady("cam")
  \/ \E z \in ZoneIdArgs :
        /\ \A id \in DOMAIN layoutZones : zones[layoutZones[id]].videoTexture = 0
        /\ AddVideoToZone("cam", z)
  \/ \E id \in ZoneIdArgs, r \in ManualRects :
        id \notin DOMAIN useCanvas.layoutZones /\ CreateLayoutZone(id, r, "video")
  \/ \E id \in ZoneIdArgs : useCanvasRemoveLayoutZone(id)
  \/ \E l \in BindingLayouts : ApplyLayout(l)
  \/ \E sz \in ResizeArgs : Resize(sz[1], sz[2])

SpecUseCanvas == InitUseCanvas /\ [][NextUseCanvas]_vars

(***************************************************************************)
(* Spec restricted to a caller that registers and unregisters listeners    *)
(* for layout-changed on a manager it initializes once, and has the event  *)
(* emitted by applying the single-speaker preset and by resizing.          *)
(***************************************************************************)
NextBus ==
  \/ inits = 0 /\ InitializeCall
  \/ \E a \in 1..MaxInits : InitResolve(a)
  \/ \E type \in EventTypeArgs, l \in ListenerArgs : On(type, l)
  \/ \E type \in EventTypeArgs, l \in ListenerArgs : Off(type, l)
  \/ isInitialized /\ ApplyLayout("single-speaker")
  \/ \E sz \in ResizeArgs : isInitialized /\ Resize(sz[1], sz[2])

SpecBus == Init /\ [][NextBus]_vars


(***************************************************************************)
(* Spec restricted to a caller that creates camera and screen resources,   *)
(* before, during and after the life of the render surface, with sources   *)
(* that become ready, fail or time out, and shows the camera in a zone.    *)
(***************************************************************************)
NextVideo ==
  \/ inits = 0 /\ InitializeCall
  \/ \E a \in 1..MaxInits : InitResolve(a)
  \/ Destroy
  \/ \E src \in VideoSources : CreateVideoTextureCall(src.id)
  \/ \E src \in VideoSources : VideoReady(src.id)
  \/ \E src \in VideoSources : VideoFail(src.id)
  \/ \E src \in VideoSources : VideoTimeoutLate(src.id)
  \/ isInitialized /\ ApplyLayout("single-speaker")
  \/ AddVideoToZone("cam", "main")

SpecVideo == Init /\ [][NextVideo]_vars


(***************************************************************************)
(* Spec restricted to a caller that shows sources of several shapes in a   *)
(* zone "main" that it creates with rectangles of several shapes.          *)
(***************************************************************************)
NextFit ==
  \/ inits = 0 /\ InitializeCall
  \/ \E a \in 1..MaxInits : InitResolve(a)
  \/ \E src \in FitSources :
        /\ isInitialized /\ pendingVideo = {} /\ DOMAIN videoTextures = {}
        /\ CreateVideoTextureCall(src.id)
  \/ \E src \in FitSources : VideoReady(src.id)
  \/ \E r \in FitRects :
        "main" \notin DOMAIN layoutZones /\ CreateLayoutZone("main", r, "video")
  \/ RemoveLayoutZone("main")
  \/ \E src \in FitSources : AddVideoToZone(src.id, "main")

SpecFit == Init /\ [][NextFit]_vars


(***************************************************************************)
(* Properties                                                              *)
(***************************************************************************)
CallOk(op) == lastCall.op = op /\ lastCall.result = "ok"
Removed(st) == { st[i][2] : i \in { j \in DOMAIN st : st[j][1] = "remove" } }
Created(st) == { st[i][2] : i \in { j \in DOMAIN st : st[j][1] = "create" } }

\* C1: after addVideoToZone(V, B) zone B's videoTexture is V and no other
\* registered zone still refers to V; two registered zones never hold a
\* videoTexture reference to the same resource.
C1_ResourceBoundToOneZone ==
  [][ /\ \A a, b \in DOMAIN layoutZones' :
           (a # b /\ zones'[layoutZones'[a]].videoTexture # 0)
             => zones'[layoutZones'[a]].videoTexture # zones'[layoutZones'[b]].videoTexture
      /\ (lastCall'.op = "addVideoToZone" /\ lastCall'.result = "ok") =>
           LET v == videoTextures[lastCall'.args[1]]
               b == lastCall'.args[2]
           IN /\ zones'[layoutZones'[b]].videoTexture = v
              /\ \A a \in DOMAIN layoutZones' \ {b} :
                    zones'[layoutZones'[a]].videoTexture # v ]_vars

\* C2: a zone holds at most one video resource: when addVideoToZone binds a
\* second resource to a zone that displays a first one, the first one's sprite
\* is no longer under the zone's container, the zone's bound resource is the
\* second, and the first is still registered and not destroyed.
C2_ZoneHoldsOneResource ==
  [][ (lastCall'.op = "addVideoToZone" /\ lastCall'.result = "ok") =>
        LET second == videoTextures[lastCall'.args[1]]
            z == layoutZones[lastCall'.args[2]]
        IN \A first \in DOMAIN videos :
             (first # second /\ videos[first].parent = z) =>
                /\ videos'[first].parent # z
                /\ zones'[z].videoTexture = second
                /\ first \in Range(videoTextures) => first \in Range(videoTextures')
                /\ videos'[first].textureDestroyed = videos[first].textureDestroyed
                /\ videos'[first].srcObject = videos[first].srcObject ]_vars

\* C3: a successful applyLayout(P.id) leaves the zone registry holding exactly
\* the zones of P (same ids, as many as P.zones, no earlier zone left over),
\* each attached under the video layer, and getCurrentLayout() returns P.
C3_ApplyLayoutInstallsPreset ==
  CallOk("applyLayout") =>
    LET P == getLayoutPreset(lastCall.args[1]) IN
      /\ isInitialized
      /\ DOMAIN layoutZones = PresetZoneIds(P)
      /\ Cardinality(DOMAIN layoutZones) = Len(P.zones)
      /\ \A i \in DOMAIN P.zones :
            /\ zones[layoutZones[P.zones[i].id]].id = P.zones[i].id
            /\ zones[layoutZones[P.zones[i].id]].parent = layers["video"].container
      /\ currentLayout = P.id

\* C3 witness: four-grid applied over a registry that held the side-by-side
\* zones and a zone "main" created by hand
C3_Witness ==
  /\ CallOk("applyLayout")
  /\ lastCall.args[1] = "four-grid"
  /\ {"left", "right", "main"} \subseteq Removed(steps)

\* C4: a successful applyLayout removes every old zone before it creates a new
\* one, emits nothing before the current layout is set, and emits exactly one
\* layout-changed event, carrying the layout id and the zone count, whose
\* listeners see the complete new zone set and the new current layout.
C4_ApplyLayoutAtomic ==
  CallOk("applyLayout") =>
    LET P == getLayoutPreset(lastCall.args[1])
        n == Len(steps)
    IN /\ \A i, j \in 1..n :
             (steps[i][1] = "remove" /\ steps[j][1] = "create") => i < j
       /\ n >= 2
       /\ steps[n] = <<"emit", "layout-changed">>
       /\ steps[n - 1] = <<"set-layout", P.id>>
       /\ \A i \in 1..(n - 1) : steps[i][1] # "emit"
       /\ Len(emitted) = 1
       /\ emitted[1].type = "layout-changed"
       /\ emitted[1].data = [layout |-> P.id, zones |-> Len(P.zones)]
       /\ emitted[1].seen.zoneIds = PresetZoneIds(P)
       /\ emitted[1].seen.currentLayout = P.id

\* C4 witness: picture-in-picture applied over the four-grid preset, with the
\* camera shown in no zone of the old set any more
C4_Witness ==
  /\ CallOk("applyLayout")
  /\ lastCall.args[1] = "picture-in-picture"
  /\ Removed(steps) = PresetZoneIds(FOUR_GRID_LAYOUT)
  /\ Created(steps) = {"main", "pip"}

\* C5: when applyLayout raises, the zone registry and the current layout are
\* what they were before the call and nothing is emitted.
C5_ApplyLayoutFailureChangesNothing ==
  [][ (lastCall'.op = "applyLayout" /\ lastCall'.result = "raised") =>
        /\ layoutZones' = layoutZones
        /\ zones' = zones
        /\ currentLayout' = currentLayout
        /\ emitted' = Empty ]_vars

\* C5 witness: applyLayout raised on a manager that has zones and a layout
C5_Witness ==
  /\ lastCall.op = "applyLayout"
  /\ lastCall.result = "raised"
  /\ isInitialized
  /\ currentLayout = "picture-in-picture"
  /\ DOMAIN layoutZones = {"main", "pip"}

\* C6: applyLayout and removeLayoutZone leave the video registry as it was,
\* destroy no resource, and leave every sprite that was under the container
\* of a removed zone under no container.
C6_RemovalDetachesWithoutDestroying ==
  [][ (lastCall'.op \in {"applyLayout", "removeLayoutZone"}) =>
        /\ videoTextures' = videoTextures
        /\ DOMAIN videos' = DOMAIN videos
        /\ \A v \in DOMAIN videos :
              /\ videos'[v].textureDestroyed = videos[v].textureDestroyed
              /\ videos'[v].srcObject = videos[v].srcObject
        /\ \A id \in Removed(steps') :
              \A v \in DOMAIN videos :
                 videos[v].parent = layoutZones[id] => videos'[v].parent = 0 ]_vars

\* C7: after destroy() no sampling interval and no pool-cleanup interval is
\* running, and never more than one of each is.
C7_DestroyStopsBothTimers ==
  /\ CallOk("destroy") => (perfTimers = {} /\ cleanupTimers = {})
  /\ Cardinality(perfTimers) <= 1
  /\ Cardinality(cleanupTimers) <= 1

\* C8: destroy() never raises; called on a manager that is not initialized it
\* changes nothing and emits nothing; called on an initialized one it emits
\* exactly one destroyed event; after it the layer, zone, video, pool and
\* overlay registries are empty.
C8_DestroyRepeatable ==
  [][ (lastCall'.op = "destroy") =>
        /\ lastCall'.result # "raised"
        /\ ~isInitialized => (UNCHANGED progVars /\ emitted' = Empty)
        /\ isInitialized => (Len(emitted') = 1 /\ emitted'[1].type = "destroyed")
        /\ DOMAIN layers' = {}
        /\ DOMAIN layoutZones' = {}
        /\ DOMAIN videoTextures' = {}
        /\ DOMAIN texturePool' = {}
        /\ DOMAIN overlays' = {} ]_vars

\* C9: after destroy() every video resource produced since initialization has
\* its texture destroyed and its media element's srcObject cleared.
C9_DestroyReleasesEveryResource ==
  CallOk("destroy") =>
    \A v \in DOMAIN videos : videos[v].textureDestroyed /\ ~videos[v].srcObject

\* C10: initialize() called on an initialized manager returns without raising,
\* emits nothing and changes nothing.
C10_InitializeIdempotent ==
  [][ (isInitialized /\ lastCall'.op = "initialize"
         /\ lastCall'.result \in {"noop", "pending"}) =>
        /\ lastCall'.result = "noop"
        /\ UNCHANGED << progVars, inits >>
        /\ emitted' = Empty ]_vars

\* C10 witness: initialize() returned at once on a manager with a zone, a
\* video resource, an overlay and both timers running
C10_Witness ==
  /\ lastCall.op = "initialize"
  /\ lastCall.result = "noop"
  /\ isInitialized
  /\ DOMAIN layoutZones # {}
  /\ DOMAIN videoTextures # {}
  /\ DOMAIN overlays # {}
  /\ perfTimers # {}
  /\ cleanupTimers # {}

\* Application objects whose backend has been created and not destroyed
RenderSurfaces(as) == { a \in DOMAIN as : as[a] = "ready" }

\* C11: the render surface is singular under any interleaving of initialize
\* calls: at most one render surface exists, one set of four layers is
\* attached, and initialize completes (emitting initialized and starting the
\* sampling and the cleanup timer) only on a manager that is not initialized.
C11_SingleRenderSurface ==
  [][ /\ Cardinality(RenderSurfaces(apps')) <= 1
      /\ Cardinality(stage') <= 1
      /\ (lastCall'.op = "initialize" /\ lastCall'.result = "ok") =>
            /\ ~isInitialized
            /\ DOMAIN layers' = LayerNames
            /\ Len(emitted') = 1
            /\ emitted'[1].type = "initialized"
            /\ Cardinality(perfTimers' \ perfTimers) <= 1
            /\ Cardinality(cleanupTimers' \ cleanupTimers) <= 1
            /\ Cardinality(perfTimers') <= 1 ]_vars

\* C12: when the backend creation of an initialize call fails, exactly one
\* error event with code INITIALIZATION_FAILED, a message and a timestamp is
\* emitted, the call raises, no initialized event is emitted, isInitialized
\* is not set, and no layer and no timer is created.
C12_InitializeFailureReported ==
  [][ (\E a \in DOMAIN apps : apps[a] = "created" /\ apps'[a] = "failed") =>
        /\ lastCall'.op = "initialize"
        /\ lastCall'.result = "raised"
        /\ Len(emitted') = 1
        /\ emitted'[1].type = "error"
        /\ emitted'[1].data.code = "INITIALIZATION_FAILED"
        /\ {"message", "timestamp"} \subseteq DOMAIN emitted'[1].data
        /\ isInitialized' = isInitialized
        /\ layers' = layers
        /\ stage' = stage
        /\ perfTimers' = perfTimers
        /\ cleanupTimers' = cleanupTimers
        /\ perfInterval' = perfInterval ]_vars

\* C12 witness: the only initialize call of a manager failed in the backend
C12_Witness ==
  /\ lastCall.op = "initialize"
  /\ lastCall.result = "raised"
  /\ inits = 1
  /\ apps[1] = "failed"
  /\ ~isInitialized
  /\ DOMAIN layers = {}
  /\ perfTimers = {}
  /\ cleanupTimers = {}

\* C13: whenever the manager is initialized the layer registry holds exactly
\* background, video, overlays, ui with strictly increasing z-order, and no
\* operation on an initialized manager other than destroy adds, removes,
\* replaces or reorders a layer.
C13_FourLayersFixed ==
  [][ /\ isInitialized' =>
           /\ DOMAIN layers' = {"background", "video", "overlays", "ui"}
           /\ layers'["background"].zIndex < layers'["video"].zIndex
           /\ layers'["video"].zIndex < layers'["overlays"].zIndex
           /\ layers'["overlays"].zIndex < layers'["ui"].zIndex
      /\ (isInitialized /\ lastCall'.op # "destroy") =>
           /\ layers' = layers
           /\ stage' = stage ]_vars

\* the listeners registered for an event type, in registration order
ListenersOf(bus, type) == IF type \in DOMAIN bus THEN bus[type] ELSE << >>

\* C14: an emit invokes every listener registered for the type when the emit
\* starts, exactly once each, in registration order, before the operation
\* returns, also when a listener calls off or on during the delivery.
C14_EmitReachesEveryListener ==
  [][ Len(emitted') = 1 =>
        LET type == emitted'[1].type
            before == ListenersOf(eventListeners, type)
        IN delivered' = [i \in DOMAIN before |-> << type, before[i] >>] ]_vars

C17_FailureUsesBothChannels ==
  (lastCall.op = "createVideoTexture" /\ lastCall.result = "raised") =>
     /\ Len(emitted) = 1
     /\ emitted[1].type = "error"

\* C18: when the source becomes ready, createVideoTexture registers the new
\* resource under source.id, emits exactly one texture-created event with
\* that id and the source kind, and returns the object it stored; the timeout
\* of that call firing later emits nothing and leaves the registry alone.
C18_VideoSuccessRegisters ==
  [][ /\ (lastCall'.op = "createVideoTexture" /\ lastCall'.result = "ok") =>
           LET id == lastCall'.args[1]
               returned == lastCall'.args[2]
           IN /\ id \in DOMAIN videoTextures'
              /\ videoTextures'[id] = returned
              /\ returned \notin DOMAIN videos
              /\ videos'[returned].id = id
              /\ Len(emitted') = 1
              /\ emitted'[1].type = "texture-created"
              /\ emitted'[1].data = [id |-> id, type |-> videos'[returned].type]
      /\ lastCall'.op = "videoLoadTimeout" =>
           /\ emitted' = Empty
           /\ videoTextures' = videoTextures
           /\ videos' = videos ]_vars

\* C18 witness: the timeout of the camera call fired after the camera was
\* registered and shown in a zone
C18_Witness ==
  /\ lastCall.op = "videoLoadTimeout"
  /\ videoTimers = {}
  /\ pendingVideo = {}
  /\ DOMAIN videoTextures = {"cam"}
  /\ videos[videoTextures["cam"]].parent # 0

\* C19: addVideoToZone succeeds only when both the video resource and the
\* zone are registered; when it raises, no sprite is detached or attached, no
\* zone's bound reference changes and nothing is emitted.
C19_AddVideoFailureChangesNothing ==
  [][ lastCall'.op = "addVideoToZone" =>
        /\ lastCall'.result \in {"ok", "raised"}
        /\ lastCall'.result = "ok" =>
              /\ lastCall'.args[1] \in DOMAIN videoTextures
              /\ lastCall'.args[2] \in DOMAIN layoutZones
        /\ lastCall'.result = "raised" =>
              /\ videos' = videos
              /\ zones' = zones
              /\ layoutZones' = layoutZones
              /\ videoTextures' = videoTextures
              /\ emitted' = Empty ]_vars

\* C19 witness: addVideoToZone raised for a missing zone while the camera is
\* shown in zone main
C19_Witness ==
  /\ lastCall.op = "addVideoToZone"
  /\ lastCall.result = "raised"
  /\ DOMAIN layoutZones = {"main"}
  /\ "cam" \in DOMAIN videoTextures
  /\ videos[videoTextures["cam"]].parent = layoutZones["main"]

\* |a - b|
Distance(a, b) == IF a < b THEN b - a ELSE a - b

\* C20: fitVideoToZone scales a sprite uniformly so that it lies inside the
\* zone, fills the zone on at least one axis, keeps the width:height ratio of
\* the texture (to the rounding of one unit), and is centered with the
\* offsets (zone dimension - scaled dimension) / 2, none negative.
C20_FitInsideZone ==
  CallOk("addVideoToZone") =>
    LET v == videos[videoTextures[lastCall.args[1]]]
        z == zones[layoutZones[lastCall.args[2]]]
    IN /\ v.texW > 0 /\ v.texH > 0 /\ z.width > 0 /\ z.height > 0
       /\ v.scaleNum > 0 /\ v.scaleDen > 0
       /\ v.spriteW <= z.width
       /\ v.spriteH <= z.height
       /\ \/ /\ v.spriteW = z.width
             /\ v.scaleNum = z.width
             /\ v.scaleDen = v.texW * Milli
          \/ /\ v.spriteH = z.height
             /\ v.scaleNum = z.height
             /\ v.scaleDen = v.texH * Milli
       /\ Distance(v.spriteW * v.texH, v.spriteH * v.texW)
             < (IF v.texW > v.texH THEN v.texW ELSE v.texH)
       /\ v.x = (z.width - v.spriteW) \div 2
       /\ v.y = (z.height - v.spriteH) \div 2
       /\ v.x >= 0
       /\ v.y >= 0

\* C20 witness: a portrait source shown in a wide, flat zone
C20_Witness ==
  /\ CallOk("addVideoToZone")
  /\ lastCall.args[1] = "portrait"
  /\ zones[layoutZones["main"]].width = 1000 * Milli
  /\ zones[layoutZones["main"]].height = 1 * Milli
  /\ videos[videoTextures["portrait"]].spriteH = 1 * Milli
  /\ videos[videoTextures["portrait"]].x > 0


\* the rectangle of a registered zone, in thousandths of a pixel
ZoneRect(id) ==
  LET z == zones[layoutZones[id]]
  IN [x |-> z.x, y |-> z.y, width |-> z.width, height |-> z.height]

FourGridApplied ==
  /\ CallOk("applyLayout")
  /\ lastCall.args[1] = "four-grid"
  /\ width = DefaultWidth
  /\ height = DefaultHeight

\* C21: applying the four-grid preset on a 1920x1080 surface creates 4 zones,
\* each 912x513 pixels (0.475 x 1920 wide, 0.475 x 1080 high), positioned at
\* the preset's four fractional offsets multiplied by the canvas dimensions:
\* (48, 27), (960, 27), (48, 540) and (960, 540).
C21_FourGridGeometry ==
  FourGridApplied =>
    /\ Cardinality(DOMAIN layoutZones) = 4
    /\ DOMAIN layoutZones = {"top-left", "top-right", "bottom-left", "bottom-right"}
    /\ \A id \in DOMAIN layoutZones :
          /\ ZoneRect(id).width = 912 * Milli
          /\ ZoneRect(id).height = 513 * Milli
    /\ ZoneRect("top-left").x = 48 * Milli /\ ZoneRect("top-left").y = 27 * Milli
    /\ ZoneRect("top-right").x = 960 * Milli /\ ZoneRect("top-right").y = 27 * Milli
    /\ ZoneRect("bottom-left").x = 48 * Milli /\ ZoneRect("bottom-left").y = 540 * Milli
    /\ ZoneRect("bottom-right").x = 960 * Milli /\ ZoneRect("bottom-right").y = 540 * Milli
    /\ \A i \in DOMAIN FOUR_GRID_LAYOUT.zones :
          LET d == FOUR_GRID_LAYOUT.zones[i]
          IN /\ ZoneRect(d.id).x = d.x * width
             /\ ZoneRect(d.id).y = d.y * height

\* C21 witness: four-grid applied on the 1920x1080 surface, four zones created
C21_Witness ==
  /\ FourGridApplied
  /\ Created(steps) = {"top-left", "top-right", "bottom-left", "bottom-right"}
  /\ ZoneRect("bottom-right").height = 513 * Milli

\* C21 as stated: each of the four zones is 912x489 pixels, to within a pixel
C21_FourGridAsStated ==
  FourGridApplied =>
    /\ Cardinality(DOMAIN layoutZones) = 4
    /\ \A id \in DOMAIN layoutZones :
          /\ Distance(ZoneRect(id).width, 912 * Milli) <= Milli
          /\ Distance(ZoneRect(id).height, 489 * Milli) <= Milli


\* C22: removeLayoutZone(id) with an id that is not registered changes nothing;
\* with a registered id it removes exactly that zone from the registry and
\* from its layer, and leaves every other zone (its geometry, its container
\* attachment and its bound resource) and the current layout unchanged.
C22_RemoveLayoutZoneExact ==
  [][ lastCall'.op = "removeLayoutZone" =>
        LET id == lastCall'.args[1] IN
          /\ currentLayout' = currentLayout
          /\ id \notin DOMAIN layoutZones => UNCHANGED progVars
          /\ id \in DOMAIN layoutZones =>
               LET gone == layoutZones[id] IN
                 /\ DOMAIN layoutZones' = DOMAIN layoutZones \ {id}
                 /\ \A o \in DOMAIN layoutZones' : layoutZones'[o] = layoutZones[o]
                 /\ gone \in DOMAIN zones' => zones'[gone].parent = 0
                 /\ \A z \in DOMAIN zones \ {gone} :
                       z \in DOMAIN zones' /\ zones'[z] = zones[z]
                 /\ DOMAIN videos' = DOMAIN videos
                 /\ \A v \in DOMAIN videos :
                       videos[v].parent # gone => videos'[v] = videos[v]
                 /\ UNCHANGED << layers, stage, videoTextures, overlays, width, height >>
    ]_vars

\* C22 witness: "main" removed from the picture-in-picture zones while "pip"
\* shows the camera; "pip" stays registered, attached and bound
C22_Witness ==
  /\ lastCall.op = "removeLayoutZone"
  /\ steps = << <<"remove", "main">> >>
  /\ currentLayout = "picture-in-picture"
  /\ DOMAIN layoutZones = {"pip"}
  /\ zones[layoutZones["pip"]].videoTexture # 0
  /\ zones[layoutZones["pip"]].parent = layers["video"].container
  /\ videos[zones[layoutZones["pip"]].videoTexture].parent = layoutZones["pip"]


\* C23: createLayoutZone raises and leaves the zone registry unchanged when
\* the named layer does not exist (an unknown layer name, or any layer name
\* on a manager that is not initialized: before initialize and after
\* destroy); otherwise it registers under the given id a zone with exactly
\* the given x, y, width, height and the z-order of its layer, attached under
\* that layer.
C23_CreateLayoutZoneChecksLayer ==
  [][ lastCall'.op = "createLayoutZone" =>
        /\ lastCall'.result \in {"ok", "raised"}
        /\ ~isInitialized => lastCall'.result = "raised"
        /\ lastCall'.result = "raised" =>
              /\ layoutZones' = layoutZones
              /\ UNCHANGED progVars
        /\ lastCall'.result = "ok" =>
              LET id == lastCall'.args[1]
                  layerName == lastCall'.args[2]
                  r == lastCall'.args[3]
                  zone == zones'[layoutZones'[id]]
              IN /\ layerName \in DOMAIN layers
                 /\ layerName \in LayerNames
                 /\ DOMAIN layoutZones' = DOMAIN layoutZones \cup {id}
                 /\ \A o \in DOMAIN layoutZones \ {id} : layoutZones'[o] = layoutZones[o]
                 /\ layoutZones'[id] \notin DOMAIN zones
                 /\ zone.id = id
                 /\ zone.x = r.x * Milli
                 /\ zone.y = r.y * Milli
                 /\ zone.width = r.width * Milli
                 /\ zone.height = r.height * Milli
                 /\ zone.zIndex = LayerZIndex(layerName)
                 /\ zone.parent = layers[layerName].container
                 /\ layers' = layers
    ]_vars

\* C23 witness: a call naming a missing layer raised on an initialized
\* manager whose registry holds a zone created on the ui layer
C23_Witness ==
  /\ lastCall.op = "createLayoutZone"
  /\ lastCall.result = "raised"
  /\ isInitialized
  /\ DOMAIN layoutZones = {"pip"}
  /\ zones[layoutZones["pip"]].zIndex = LayerZIndex("ui")
  /\ zones[layoutZones["pip"]].parent = layers["ui"].container
  /\ zones[layoutZones["pip"]].x = -20 * Milli


\* C24: resize(width, height) is a no-op on a manager that is not initialized
\* (never initialized, initialization failed, or destroyed): cached
\* dimensions unchanged, nothing raised, no event; on an initialized manager
\* it sets the cached width and height to the arguments and then emits
\* exactly one layout-changed event.  (A resize made while an initialize is
\* still pending is left out of the statement.)
C24_ResizeNoOpUnlessInitialized ==
  [][ lastCall'.op = "resize" =>
        IF isInitialized
          THEN /\ lastCall'.result = "ok"
               /\ width' = lastCall'.args[1]
               /\ height' = lastCall'.args[2]
               /\ Len(emitted') = 1
               /\ emitted'[1].type = "layout-changed"
               /\ emitted'[1].seen.width = width'
               /\ emitted'[1].seen.height = height'
          ELSE pendingInit = {} =>
                 /\ lastCall'.result = "noop"
                 /\ width' = width
                 /\ height' = height
                 /\ emitted' = Empty
    ]_vars


\* the keys whose textures a cleanup tick destroyed
Released(st) == { st[i][2] : i \in { j \in DOMAIN st : st[j][1] = "destroy-texture" } }

\* C25: a pool-cleanup tick releases and removes exactly the pool entries
\* that are not in use and whose idle time (now - lastUsed) exceeds 60
\* seconds; an entry that is in use, or idle for 60 seconds or less, is never
\* released or removed by cleanup, and cleanup changes nothing outside the
\* pool.
C25_CleanupEvictsIdleUnused ==
  [][ lastCall'.op = "cleanupTexturePool" =>
        LET now == lastCall'.args[2]
            expired == { k \in DOMAIN texturePool :
                           /\ ~texturePool[k].isInUse
                           /\ now - texturePool[k].lastUsed > 60000 }
        IN /\ DOMAIN texturePool' = DOMAIN texturePool \ expired
           /\ Released(steps') = expired
           /\ Len(steps') = Cardinality(expired)
           /\ \A k \in DOMAIN texturePool :
                 (texturePool[k].isInUse \/ now - texturePool[k].lastUsed <= 60000)
                   => /\ k \in DOMAIN texturePool'
                      /\ texturePool'[k] = texturePool[k]
                      /\ k \notin Released(steps')
           /\ UNCHANGED << app, apps, pendingInit, isInitialized, width, height, layers,
                           stage, videoTextures, videos, pendingVideo, layoutZones,
                           zones, currentLayout, overlayManager, omDestroyed, overlays,
                           overlayNodes, pendingOverlay, perfInterval, perfTimers, cleanupTimers,
                           textureCount, fps, frameCount, framesRendered, eventListeners, videoTimers >>
           /\ emitted' = Empty
    ]_vars

\* C25 witness: a tick at 61000 ms released tex-a (unused, last used at 0)
\* and kept tex-b (in use, last used at 0) and tex-c (unused, last used at
\* 1000: idle for exactly 60 seconds)
C25_Witness ==
  /\ lastCall.op = "cleanupTexturePool"
  /\ lastCall.args[2] = 61000
  /\ steps = << <<"destroy-texture", "tex-a">> >>
  /\ DOMAIN texturePool = {"tex-b", "tex-c"}
  /\ texturePool["tex-b"] = [lastUsed |-> 0, isInUse |-> TRUE]
  /\ texturePool["tex-c"] = [lastUsed |-> 1000, isInUse |-> FALSE]


\* C26: at a sampling tick that closes a window of at least 1 second the
\* reported fps is round(frameCount * 1000 / elapsedMs), where frameCount is
\* the number of frames rendered in that window; the frame counter and the
\* window start are reset each time a window closes, and the reported
\* resource count equals the number of entries in the video registry at that
\* tick.
C26_FpsFromRenderedFrames ==
  [][ (lastCall'.op = "updatePerformanceMetrics" /\ lastCall'.result = "ok") =>
        LET elapsedMs == lastCall'.args[2] IN
          /\ elapsedMs >= 1000 =>
                /\ fps' = Round(framesRendered * 1000, elapsedMs)
                /\ frameCount' = 0
                /\ framesRendered' = 0
          /\ textureCount' = Cardinality(DOMAIN videoTextures)
          /\ emitted'[1].data.fps = fps'
          /\ emitted'[1].data.textureCount = textureCount'
    ]_vars


\* the step registered a new overlay node: createOverlay returned for a text
\* or lower-third overlay, or the creation of an image overlay went on
OverlayCreated ==
  /\ lastCall'.op \in {"createOverlay", "createImageOverlay"}
  /\ lastCall'.result = "ok"

\* C27: every overlay creation registers the new node under config.id,
\* attaches it under the overlay layer, places it at the configured x, y, and
\* applies the defaults when the config omits them: z-order 100 for text, 50
\* for image/logo, 75 for lower-third, and visibility true; an explicitly
\* configured z-order or visibility (including visible = false) is kept.
C27_OverlayCreationDefaults ==
  [][ OverlayCreated =>
        LET config == lastCall'.args[2]
            n == overlays'[config.id]
            node == overlayNodes'[n]
        IN /\ config.id \in DOMAIN overlays'
           /\ n \notin DOMAIN overlayNodes
           /\ \A o \in DOMAIN overlays \ {config.id} : overlays'[o] = overlays[o]
           /\ node.id = config.id
           /\ node.type = config.type
           /\ node.om = overlayManager
           /\ ~omDestroyed
           /\ "overlays" \in DOMAIN layers
           /\ node.x = config.x
           /\ node.y = config.y
           /\ node.zIndex =
                IF "zIndex" \in DOMAIN config THEN config.zIndex
                ELSE CASE config.type = "text" -> 100
                       [] config.type \in {"image", "logo"} -> 50
                       [] config.type = "lower-third" -> 75
           /\ node.visible =
                IF "visible" \in DOMAIN config THEN config.visible ELSE TRUE
    ]_vars

\* C27 witness: a logo created with zIndex 0 and visible false, both kept,
\* beside a lower third that got the defaults 75 and true
C27_Witness ==
  /\ lastCall.op = "createImageOverlay"
  /\ lastCall.args[2].type = "logo"
  /\ DOMAIN overlays = {"logo", "name"}
  /\ overlayNodes[overlays["logo"]].zIndex = 0
  /\ overlayNodes[overlays["logo"]].visible = FALSE
  /\ overlayNodes[overlays["name"]].zIndex = 75
  /\ overlayNodes[overlays["name"]].visible = TRUE
  /\ overlayNodes[overlays["name"]].y = 900


\* C28: updateTextOverlay and updateLowerThird change nothing when the id is
\* unknown; for a known id they mutate the existing node in place (the
\* registry maps the id to the same node before and after), set the text
\* content to the given title/content (and, for a lower third, the subtitle
\* to the given subtitle), and leave the node's position, visibility and
\* z-order, and every other overlay, unchanged.
C28_TextUpdatesInPlace ==
  [][ lastCall'.op \in {"updateTextOverlay", "updateLowerThird"} =>
        LET id == lastCall'.args[1] IN
          IF id \notin DOMAIN overlays
            THEN UNCHANGED progVars
            ELSE LET n == overlays[id] IN
              /\ overlays' = overlays
              /\ DOMAIN overlayNodes' = DOMAIN overlayNodes
              /\ \A m \in DOMAIN overlayNodes \ {n} : overlayNodes'[m] = overlayNodes[m]
              /\ overlayNodes'[n].x = overlayNodes[n].x
              /\ overlayNodes'[n].y = overlayNodes[n].y
              /\ overlayNodes'[n].visible = overlayNodes[n].visible
              /\ overlayNodes'[n].zIndex = overlayNodes[n].zIndex
              /\ overlayNodes'[n].texts[1] = lastCall'.args[2]
              /\ ( /\ lastCall'.op = "updateLowerThird"
                   /\ overlayNodes[n].type = "lower-third"
                   /\ lastCall'.args[3] # << >> ) =>
                    /\ Len(overlayNodes'[n].texts) = 2
                    /\ overlayNodes'[n].texts[2] = lastCall'.args[3][1]
    ]_vars


\* C29: removing, moving, hiding or updating an overlay whose id is not
\* registered is a complete no-op through the public manager operations
\* removeOverlay and updateOverlay: the overlay registry and overlay layer
\* are unchanged and no overlay-removed or overlay-updated event is emitted
\* for a mutation that did not happen.
C29_UnknownOverlayNoOp ==
  [][ ( /\ lastCall'.op \in {"removeOverlay", "updateOverlay"}
        /\ lastCall'.result = "ok"
        /\ lastCall'.args[1] \notin DOMAIN overlays ) =>
          /\ overlays' = overlays
          /\ overlayNodes' = overlayNodes
          /\ emitted' = Empty
    ]_vars


\* the x and y fractions (thousandths) of every rectangle of the built-in
\* layout presets
PresetOffsets ==
  UNION { UNION { { LAYOUT_PRESETS[p].zones[i].x, LAYOUT_PRESETS[p].zones[i].y } :
                    i \in DOMAIN LAYOUT_PRESETS[p].zones } :
            p \in DOMAIN LAYOUT_PRESETS }

\* where an offset (thousandths of a pixel) lies on an axis of the given
\* length (pixels) when a negative offset is measured from the far edge
FromFarEdge(offset, length) ==
  IF offset < 0 THEN length * Milli + offset ELSE offset

\* C30: zone placement never clamps to non-negative values: a rectangle with a
\* negative offset is permitted (the zone is created, not moved to 0), is
\* interpreted as an offset measured from the far edge of the canvas, and at
\* least one built-in layout preset uses such a negative offset.
C30_NegativeOffsetsFromFarEdge ==
  [][ (lastCall'.op = "createLayoutZone" /\ lastCall'.result = "ok") =>
        LET r == lastCall'.args[3]
            zone == zones'[layoutZones'[lastCall'.args[1]]]
        IN /\ r.x < 0 => zone.x # 0
           /\ r.y < 0 => zone.y # 0
           /\ zone.x = FromFarEdge(r.x * Milli, width)
           /\ zone.y = FromFarEdge(r.y * Milli, height)
           /\ \E o \in PresetOffsets : o < 0
    ]_vars


\* C31: every overlay node attached under the overlay layer is reachable
\* through the registry by its identifier, also after an overlay was created
\* again under a registered identifier; so removeOverlay(id) leaves no node
\* created under that id attached, and clearAllOverlays leaves the overlay
\* layer empty.
C31_AttachedOverlaysRegistered ==
  [][ /\ \A n \in DOMAIN overlayNodes' :
            /\ overlayNodes'[n].id \in DOMAIN overlays'
            /\ overlays'[overlayNodes'[n].id] = n
      /\ (lastCall'.op = "removeOverlay" /\ lastCall'.result = "ok") =>
            \A n \in DOMAIN overlayNodes' : overlayNodes'[n].id # lastCall'.args[1]
      /\ (lastCall'.op = "clearAllOverlays" /\ lastCall'.result = "ok") =>
            overlayNodes' = Empty
    ]_vars


\* C32: while the zones are those of the last successful applyLayout (none
\* created or removed by hand since), each registered zone's pixel rectangle
\* equals its preset fraction multiplied by the manager's current canvas
\* width and height, also after resize(width, height) changed the size.
C32_ZonesFollowCanvasSize ==
  (isInitialized /\ currentLayout # "") =>
    LET want == calculateZonePositions(getLayoutPreset(currentLayout).zones,
                                       width, height)
    IN \A id \in DOMAIN layoutZones :
         \E i \in DOMAIN want :
           /\ want[i].id = id
           /\ ZoneRect(id) = [x |-> want[i].x, y |-> want[i].y,
                              width |-> want[i].width, height |-> want[i].height]


\* C33: once destroy() has returned (state.app is null again after an
\* initialize), the video registry stays empty and no texture-created event
\* is emitted until initialize is called again, also when a createVideoTexture
\* call awaiting source readiness resumes after the destroy.
C33_NoVideoAfterDestroy ==
  [][ (inits > 0 /\ app = 0 /\ app' = 0) =>
        /\ videoTextures' = Empty
        /\ \A i \in DOMAIN emitted' : emitted'[i].type # "texture-created"
    ]_vars


\* C34: an image overlay whose asynchronous creation is pending when
\* removeOverlay(id) or destroy() is called for it does not appear afterwards:
\* when the removal or teardown has returned, no node with that id is
\* registered or attached under the overlay layer by what happens next, and
\* no overlay-created event for it is emitted.
C34_PendingImageStaysRemoved ==
  [][ LET gone == IF lastCall.op = "removeOverlay" /\ lastCall.result = "ok"
                    THEN { lastCall.args[1] }
                    ELSE IF lastCall.op = "destroy" /\ lastCall.result = "ok"
                      THEN { p.config.id : p \in pendingOverlay }
                      ELSE {}
      IN \A p \in pendingOverlay :
           p.config.id \in gone =>
             /\ p.config.id \notin DOMAIN overlays'
             /\ \A n \in DOMAIN overlayNodes' : overlayNodes'[n].id # p.config.id
             /\ \A i \in DOMAIN emitted' :
                  ~(emitted'[i].type = "overlay-created"
                      /\ emitted'[i].data.id = p.config.id)
    ]_vars


\* C35: in every reachable state of an initialized manager the zone
\* containers attached under the layers are exactly the zones in the zone
\* registry: one attached container per registered id and no unregistered
\* container left attached, also after createLayoutZone was called with an
\* id that is registered already.
C35_AttachedZonesRegistered ==
  isInitialized =>
    /\ \A id \in DOMAIN layoutZones :
          /\ zones[layoutZones[id]].parent # 0
          /\ zones[layoutZones[id]].id = id
    /\ \A z \in DOMAIN zones : zones[z].parent # 0 => z \in Range(layoutZones)
    /\ \A a, b \in DOMAIN layoutZones : layoutZones[a] = layoutZones[b] => a = b


\* C36: getCurrentLayout() returns a preset only while the manager is
\* initialized: it is null before the first successful applyLayout and null
\* again after destroy(), so a torn-down manager with an empty zone registry
\* never reports an active layout.
C36_LayoutOnlyWhileInitialized ==
  /\ ~isInitialized => currentLayout = ""
  /\ (currentLayout # "" /\ DOMAIN layoutZones = {}) => isInitialized


\* C37: CanvasManager.updateOverlay changes only the overlay attributes named
\* in its updates argument: with x but not y (or y but not x) the overlay's
\* other coordinate keeps its previous value, and visibility is unchanged
\* unless updates.visible is given.
C37_UpdateOverlayOnlyNamed ==
  [][ (lastCall'.op = "updateOverlay" /\ lastCall'.result = "ok"
         /\ lastCall'.args[1] \in DOMAIN overlays) =>
        LET u == lastCall'.args[2]
            n == overlays[lastCall'.args[1]]
        IN /\ "x" \notin DOMAIN u => overlayNodes'[n].x = overlayNodes[n].x
           /\ "y" \notin DOMAIN u => overlayNodes'[n].y = overlayNodes[n].y
           /\ "visible" \notin DOMAIN u =>
                overlayNodes'[n].visible = overlayNodes[n].visible
    ]_vars


\* C38: createOverlay fails with 'Overlay manager not initialized', creating
\* nothing and emitting no event, whenever the manager is not initialized,
\* before the first initialize and after destroy(); it never attaches a node
\* to the overlay container of a torn-down overlay subsystem.
C38_CreateOverlayNeedsInitialized ==
  [][ /\ (~isInitialized /\ lastCall'.op = "createOverlay") =>
           /\ lastCall'.result = "raised"
           /\ overlays' = overlays
           /\ overlayNodes' = overlayNodes
           /\ pendingOverlay' = pendingOverlay
           /\ emitted' = Empty
      /\ \A n \in DOMAIN overlayNodes' \ DOMAIN overlayNodes :
           ~(omDestroyed' /\ overlayNodes'[n].om = overlayManager')
    ]_vars


\* C39: the layoutZones mirror of the useCanvas composable holds exactly the
\* zone ids registered in the manager after any sequence of composable
\* operations (createLayoutZone, removeLayoutZone, applyLayout,
\* addVideoToZone, resize); so a zone removed through the composable's
\* removeLayoutZone is gone from the manager as well and does not come back
\* into the mirror with the next layout-changed event.
C39_MirrorMatchesRegistry ==
  [][ useCanvas'.mounted =>
        /\ DOMAIN useCanvas'.layoutZones = DOMAIN layoutZones'
        /\ (lastCall'.op = "useCanvas.removeLayoutZone" /\ lastCall'.result = "ok") =>
              lastCall'.args[1] \notin DOMAIN layoutZones'
        /\ \A id \in DOMAIN useCanvas'.layoutZones \ DOMAIN useCanvas.layoutZones :
              id \notin DOMAIN layoutZones
    ]_vars

=============================================================================
